---- MODULE Spec2Model ----
(***************************************************************************)
(* Model of the request-time monitoring and alerting subsystem of the      *)
(* Home Kitchen Manager API (src/api/v1/monitoring.py): the bounded        *)
(* MetricsCollector store, the health evaluator, the AlertManager and the  *)
(* MonitoringMiddleware.                                                   *)
(*                                                                         *)
(* Conventions.  An Optional[...] value is a sequence of length at most    *)
(* one: None is << >> and a present value x is <<x>>.  Times are whole     *)
(* seconds.  Durations are whole tenths of a second.  A ratio (error rate, *)
(* average) is kept as numerator and denominator and compared by cross     *)
(* multiplication, so no rounding is introduced by the model.              *)
(***************************************************************************)
EXTENDS Integers, Sequences, FiniteSets, TLC

VARIABLES
    now,              \* datetime.utcnow(), in seconds
    max_history,      \* MetricsCollector.max_history
    request_metrics,  \* MetricsCollector.request_metrics (deque)
    system_metrics,   \* MetricsCollector.system_metrics (deque)
    endpoint_stats,   \* MetricsCollector.endpoint_stats (defaultdict)
    error_counts,     \* MetricsCollector.error_counts (defaultdict)
    user_activity,    \* MetricsCollector.user_activity (defaultdict)
    submitted,        \* history: every record ever passed to record_request
    health_result,    \* what the latest get_health_status call returned, None
                      \* once the store or the clock has changed since
    alert_history,    \* AlertManager.alert_history: alert type -> last fired
    alerts,           \* history: the ALERT log calls made, in order
    alert_log_enabled, \* the "api.alerts" logger is enabled for WARNING and up
    last_check,       \* history: what the latest check_alerts run did, None
                      \* once the store or the clock has changed since
    lock,             \* MetricsCollector._lock: the thread holding it, or None
    threads,          \* the writer threads of SpecConc
    requests,         \* the requests passing through MonitoringMiddleware
    reader,           \* a thread making a reader's pass over request_metrics
    task,             \* the asyncio task running system_metrics_task
    lifespan,         \* where the lifespan manager of main.py stands
    response,         \* history: what the latest route handler call answered
    users,            \* the rows of table users
    kitchens,         \* the rows of table kitchens
    shopping_lists,   \* the rows of table shopping_lists
    shopping_list_items, \* the rows of table shopping_list_items
    registrations     \* the register_user calls in flight, by request

storeVars == <<max_history, request_metrics, system_metrics, endpoint_stats,
               error_counts, user_activity, submitted>>

healthVars == <<health_result>>

alertVars == <<alert_history, alerts, alert_log_enabled, last_check>>

concVars == <<lock, threads>>

mwVars == <<requests>>

readVars == <<reader>>

taskVars == <<task, lifespan>>

routeVars == <<response>>

dbVars == <<users, kitchens, shopping_lists, shopping_list_items, registrations>>

otherVars == <<readVars, taskVars, routeVars, dbVars>>

vars == <<now, storeVars, healthVars, alertVars, concVars, mwVars, otherVars>>

-----------------------------------------------------------------------------
(* Python values *)

None == << >>

Some(x) == <<x>>

\* Truth value of an Optional[int] in `if x:`: None and 0 are false.
TruthyInt(x) == x # None /\ x[1] # 0

\* Truth value of an Optional[str] in `if x:`: None and "" are false.
TruthyStr(x) == x # None /\ x[1] # ""

\* d[k] of a defaultdict whose factory yields dflt (the read part).
DefaultGet(d, k, dflt) == IF k \in DOMAIN d THEN d[k] ELSE dflt

\* d[k] = v
DictSet(d, k, v) == [x \in (DOMAIN d) \cup {k} |-> IF x = k THEN v ELSE d[x]]

EmptyDict == [x \in {} |-> 0]

\* A faulty append to a deque without maxlen.
DequeAppendUnbounded(q, x, maxlen) == Append(q, x)

\* A faulty append that refuses the new entry once the deque is full.
DequeAppendDropsNewest(q, x, maxlen) ==
    IF Len(q) >= maxlen THEN q ELSE Append(q, x)

\* collections.deque(maxlen=...).append: the oldest entries fall off the left.
DequeAppend(q, x, maxlen) ==
    LET r == Append(q, x)
    IN  IF Len(r) > maxlen THEN SubSeq(r, Len(r) - maxlen + 1, Len(r)) ELSE r

-----------------------------------------------------------------------------
(* RequestMetrics and the MetricsCollector store *)

RequestMetrics(ts, method, path, status, duration, user, code) ==
    [timestamp |-> ts, method |-> method, path |-> path, status_code |-> status,
     duration |-> duration, user_id |-> user, error_code |-> code]

\* f"{metrics.method} {metrics.path}"
EndpointKey(m) == m.method \o " " \o m.path

NewEndpointStat ==
    [count |-> 0, total_time |-> 0, error_count |-> 0, last_accessed |-> None]

NewUserStat == [request_count |-> 0, last_activity |-> None, error_count |-> 0]

\* A faulty update that counts only the requests that did not fail.
EndpointStatsCountsSuccessesOnly(es, m) ==
    LET k == EndpointKey(m)
        s == DefaultGet(es, k, NewEndpointStat)
    IN  DictSet(es, k,
            [count         |-> IF m.status_code >= 400 THEN s.count ELSE s.count + 1,
             total_time    |-> s.total_time + m.duration,
             error_count   |-> IF m.status_code >= 400
                               THEN s.error_count + 1 ELSE s.error_count,
             last_accessed |-> Some(m.timestamp)])

\* record_request, "Update endpoint statistics"
EndpointStatsAfter(es, m) ==
    LET k == EndpointKey(m)
        s == DefaultGet(es, k, NewEndpointStat)
    IN  DictSet(es, k,
            [count         |-> s.count + 1,
             total_time    |-> s.total_time + m.duration,
             error_count   |-> IF m.status_code >= 400
                               THEN s.error_count + 1 ELSE s.error_count,
             last_accessed |-> Some(m.timestamp)])

\* A faulty tally that counts the error code of every record, failed or not.
ErrorCountsAfterAnyStatus(ec, m) ==
    IF TruthyStr(m.error_code)
    THEN DictSet(ec, m.error_code[1], DefaultGet(ec, m.error_code[1], 0) + 1)
    ELSE ec

\* record_request, the error-code tally
ErrorCountsAfter(ec, m) ==
    IF m.status_code >= 400 /\ TruthyStr(m.error_code)
    THEN DictSet(ec, m.error_code[1], DefaultGet(ec, m.error_code[1], 0) + 1)
    ELSE ec

\* A faulty update that tests `metrics.user_id is not None`, so that user 0 is
\* counted.
UserActivityAfterAnyPresentId(ua, m) ==
    IF m.user_id # None
    THEN LET u == m.user_id[1]
             s == DefaultGet(ua, u, NewUserStat)
         IN  DictSet(ua, u,
                 [request_count |-> s.request_count + 1,
                  last_activity |-> Some(m.timestamp),
                  error_count   |-> IF m.status_code >= 400
                                    THEN s.error_count + 1 ELSE s.error_count])
    ELSE ua

\* record_request, "Update user activity"
UserActivityAfter(ua, m) ==
    IF TruthyInt(m.user_id)
    THEN LET u == m.user_id[1]
             s == DefaultGet(ua, u, NewUserStat)
         IN  DictSet(ua, u,
                 [request_count |-> s.request_count + 1,
                  last_activity |-> Some(m.timestamp),
                  error_count   |-> IF m.status_code >= 400
                                    THEN s.error_count + 1 ELSE s.error_count])
    ELSE ua

\* The store as one value: the fields of a MetricsCollector (and the history).
Store ==
    [max_history |-> max_history, request_metrics |-> request_metrics,
     system_metrics |-> system_metrics, endpoint_stats |-> endpoint_stats,
     error_counts |-> error_counts, user_activity |-> user_activity,
     submitted |-> submitted]

\* MetricsCollector.__init__
NewStore(cap) ==
    [max_history |-> cap, request_metrics |-> << >>, system_metrics |-> << >>,
     endpoint_stats |-> EmptyDict, error_counts |-> EmptyDict,
     user_activity |-> EmptyDict, submitted |-> << >>]

\* MetricsCollector.record_request: the whole body runs under self._lock.
Ingest(st, m) ==
    [st EXCEPT
        !.request_metrics = DequeAppend(st.request_metrics, m, st.max_history),
        !.endpoint_stats = EndpointStatsAfter(st.endpoint_stats, m),
        !.error_counts = ErrorCountsAfter(st.error_counts, m),
        !.user_activity = UserActivityAfter(st.user_activity, m),
        !.submitted = Append(st.submitted, m)]

\* The store after record_request has been called with each record of ms in turn.
RECURSIVE IngestAll(_, _)
IngestAll(st, ms) ==
    IF ms = << >> THEN st ELSE IngestAll(Ingest(st, Head(ms)), Tail(ms))

StoreIs(st) ==
    /\ max_history = st.max_history
    /\ request_metrics = st.request_metrics
    /\ system_metrics = st.system_metrics
    /\ endpoint_stats = st.endpoint_stats
    /\ error_counts = st.error_counts
    /\ user_activity = st.user_activity
    /\ submitted = st.submitted

StoreRecord(m) ==
    LET st == Ingest(Store, m)
    IN  /\ request_metrics' = st.request_metrics
        /\ endpoint_stats' = st.endpoint_stats
        /\ error_counts' = st.error_counts
        /\ user_activity' = st.user_activity
        /\ submitted' = st.submitted
        /\ UNCHANGED <<max_history, system_metrics>>

-----------------------------------------------------------------------------
(* SystemMetrics snapshots: MetricsCollector.record_system_metrics *)

SystemMetrics(ts, cpu, mem, mem_mb, disk, conns, rc, ec, avg) ==
    [timestamp |-> ts, cpu_percent |-> cpu, memory_percent |-> mem,
     memory_mb |-> mem_mb, disk_percent |-> disk, active_connections |-> conns,
     request_count |-> rc, error_count |-> ec, avg_response_time |-> avg]

\* What psutil reports: cpu_percent(), virtual_memory(), disk_usage('/'),
\* net_connections().
Sample(cpu, mem, disk) ==
    [cpu |-> cpu, mem |-> mem, mem_mb |-> 0, disk |-> disk, conns |-> 0]

Ratio(n, d) == [num |-> n, den |-> d]

\* a > b for two ratios with positive denominators
RatioGT(a, b) == a.num * b.den > b.num * a.den

RECURSIVE SumDurations(_)
SumDurations(ms) ==
    IF ms = << >> THEN 0 ELSE Head(ms).duration + SumDurations(Tail(ms))

\* sum(1 for m in ms if m.status_code >= 400)
CountErrors(ms) == Cardinality({i \in 1..Len(ms) : ms[i].status_code >= 400})

\* [m for m in self.request_metrics if m.timestamp >= t - seconds]
RecentRequests(ms, t, seconds) ==
    SelectSeq(ms, LAMBDA m : m.timestamp >= t - seconds)

OneMinute == 60
FiveMinutes == 300
SystemHistoryCap == 1000

\* The SystemMetrics that record_system_metrics builds from the sample s.
Snapshot(s) ==
    LET recent_requests == RecentRequests(request_metrics, now, OneMinute)
        request_count == Len(recent_requests)
    IN  SystemMetrics(now, s.cpu, s.mem, s.mem_mb, s.disk, s.conns,
            request_count, CountErrors(recent_requests),
            IF request_count > 0
            THEN Ratio(SumDurations(recent_requests), request_count)
            ELSE Ratio(0, 1))

\* A faulty record_system_metrics that appends an all-zero snapshot when the
\* sampling failed.
StoreSnapshotZeroOnFailure(sampled) ==
    /\ system_metrics' =
           DequeAppend(system_metrics,
                       Snapshot(IF sampled = None THEN Sample(0, 0, 0) ELSE sampled[1]),
                       SystemHistoryCap)
    /\ UNCHANGED <<max_history, request_metrics, endpoint_stats, error_counts,
                   user_activity, submitted>>

\* record_system_metrics.  sampled is None when a psutil call raised: the
\* exception is caught and logged and nothing is appended.
StoreSnapshot(sampled) ==
    /\ system_metrics' =
           IF sampled = None THEN system_metrics
           ELSE DequeAppend(system_metrics, Snapshot(sampled[1]), SystemHistoryCap)
    /\ UNCHANGED <<max_history, request_metrics, endpoint_stats, error_counts,
                   user_activity, submitted>>

-----------------------------------------------------------------------------
(* The health evaluator: MetricsCollector.get_health_status *)

CpuLimit == 80
MemoryLimit == 85
\* error_rate > 0.1
HealthErrorRateLimit == Ratio(1, 10)

\* error_requests / total_requests if total_requests > 0 else 0.0
ErrorRate(ms) ==
    IF Len(ms) > 0 THEN Ratio(CountErrors(ms), Len(ms)) ELSE Ratio(0, 1)

\* The conditions of "Determine overall health", in the order the code tests
\* them; each is <<holds, status it sets, issue it appends>>.
\* A faulty order of the tests: memory after the error rate, so that high
\* memory turns an unhealthy status back into degraded.
HealthConditionsMemoryLast(recent_system, error_rate) ==
    IF recent_system = None THEN << >>
    ELSE << <<recent_system[1].cpu_percent > CpuLimit, "degraded", "High CPU usage">>,
            <<RatioGT(error_rate, HealthErrorRateLimit), "unhealthy", "High error rate">>,
            <<recent_system[1].memory_percent > MemoryLimit, "degraded",
              "High memory usage">> >>

HealthConditions(recent_system, error_rate) ==
    IF recent_system = None THEN << >>
    ELSE << <<recent_system[1].cpu_percent > CpuLimit, "degraded", "High CPU usage">>,
            <<recent_system[1].memory_percent > MemoryLimit, "degraded",
              "High memory usage">>,
            <<RatioGT(error_rate, HealthErrorRateLimit), "unhealthy", "High error rate">> >>

\* health_status after the conditions cs have been tested in turn
RECURSIVE StatusAfter(_, _)
StatusAfter(status, cs) ==
    IF cs = << >> THEN status
    ELSE StatusAfter(IF Head(cs)[1] THEN Head(cs)[2] ELSE status, Tail(cs))

\* issues after the conditions cs have been tested in turn
RECURSIVE IssuesAfter(_, _)
IssuesAfter(issues, cs) ==
    IF cs = << >> THEN issues
    ELSE IssuesAfter(IF Head(cs)[1] THEN Append(issues, Head(cs)[3]) ELSE issues,
                     Tail(cs))

\* A faulty report that shows a missing snapshot as zero load.
ResourceFieldZeroWhenAbsent(recent_system, field) ==
    IF recent_system # None THEN Some(recent_system[1][field])
    ELSE IF field = "avg_response_time" THEN Some(Ratio(0, 1))
    ELSE Some(0)

\* recent_system.<field> if recent_system else None
ResourceField(recent_system, field) ==
    IF recent_system # None THEN Some(recent_system[1][field]) ELSE None

\* get_health_status.  failed: the try body raised (the except branch answers).
GetHealthStatus(failed) ==
    IF failed
    THEN [status |-> "unknown", timestamp |-> now, error |-> "exception"]
    ELSE LET recent_system ==
                 IF Len(system_metrics) > 0
                 THEN Some(system_metrics[Len(system_metrics)]) ELSE None
             recent_requests == RecentRequests(request_metrics, now, FiveMinutes)
             error_rate == ErrorRate(recent_requests)
             cs == HealthConditions(recent_system, error_rate)
         IN  [status |-> StatusAfter("healthy", cs),
              timestamp |-> now,
              issues |-> IssuesAfter(<< >>, cs),
              metrics |->
                  [requests_last_5min |-> Len(recent_requests),
                   error_rate |-> error_rate,
                   cpu_percent |-> ResourceField(recent_system, "cpu_percent"),
                   memory_percent |-> ResourceField(recent_system, "memory_percent"),
                   avg_response_time |->
                       ResourceField(recent_system, "avg_response_time")]]

-----------------------------------------------------------------------------
(* Specification Spec: one caller submitting records to a small store *)

StoreCap == 2
MaxSubmitted == 3
StoreClock == {0, 1}

Methods == {"GET", "POST"}
Paths == {"/a"}
Statuses == {200, 500}
UserIds == {None, Some(1)}
ErrorCodes == {None, Some("E")}

\* The parts of the state a specification does not use stay as constructed.
NoHealth == health_result = None

NoAlerts ==
    /\ alert_history = EmptyDict
    /\ alerts = << >>
    /\ alert_log_enabled = TRUE
    /\ last_check = None

NoThreads == lock = None /\ threads = << >>

NoRequests == requests = << >>

NoReader == reader = None

NoTask == task = None /\ lifespan = None

NoResponse == response = None

NoDb ==
    /\ users = {}
    /\ kitchens = {}
    /\ shopping_lists = {}
    /\ shopping_list_items = {}
    /\ registrations = << >>

NoOther == NoReader /\ NoTask /\ NoResponse /\ NoDb

Init ==
    /\ now = 0
    /\ StoreIs(NewStore(StoreCap))
    /\ NoHealth /\ NoAlerts /\ NoThreads /\ NoRequests /\ NoOther

RecordRequest ==
    /\ Len(submitted) < MaxSubmitted
    /\ \E method \in Methods, path \in Paths, status \in Statuses,
          user \in UserIds, code \in ErrorCodes :
          StoreRecord(RequestMetrics(now, method, path, status, 1, user, code))
    /\ UNCHANGED <<now, healthVars, alertVars, concVars, mwVars, otherVars>>

Tick ==
    /\ \E t \in StoreClock : t > now /\ now' = t
    /\ UNCHANGED <<storeVars, healthVars, alertVars, concVars, mwVars, otherVars>>

Next == RecordRequest \/ Tick

Spec == Init /\ [][Next]_vars

\* C1: the request buffer holds the max_history most recently submitted
\* records in arrival order, and all of them while no more than max_history
\* have been submitted.
C1_BufferKeepsMostRecent ==
    LET n == Len(submitted)
    IN  request_metrics =
            IF n > max_history THEN SubSeq(submitted, n - max_history + 1, n)
            ELSE submitted

\* More records were submitted than the buffer holds: the oldest was evicted.
C1_Witness ==
    /\ Len(submitted) > max_history
    /\ Len(request_metrics) = max_history
    /\ request_metrics[1] # submitted[1]

SubmittedFor(k) == {i \in 1..Len(submitted) : EndpointKey(submitted[i]) = k}

SubmittedKeys == {EndpointKey(submitted[i]) : i \in 1..Len(submitted)}

\* C2: for every endpoint key, endpoint_stats[key].count is the number of
\* records ever submitted with that method and path, evicted ones included.
C2_CountEqualsSubmitted ==
    /\ DOMAIN endpoint_stats = SubmittedKeys
    /\ \A k \in SubmittedKeys :
           endpoint_stats[k].count = Cardinality(SubmittedFor(k))

\* A key whose count exceeds the records of that key still in the buffer.
C2_Witness ==
    \E k \in DOMAIN endpoint_stats :
        endpoint_stats[k].count >
            Cardinality({i \in 1..Len(request_metrics) :
                            EndpointKey(request_metrics[i]) = k})

-----------------------------------------------------------------------------
(* Specification SpecHealth: the health evaluator over a store that has    *)
(* already served some successful probe requests                           *)

DefaultMaxHistory == 10000
MaxHealthRequests == 2
MaxHealthSnapshots == 1

\* how many successful "GET /health" requests the store starts with
BaseLoads == {0, 5, 9}
\* a record made at 0 is inside the five-minute window at 300 and outside at 301
HealthClock == {0, 300, 301}
CpuSamples == {80, 81}
MemorySamples == {85, 86}

RECURSIVE Repeat(_, _)
Repeat(x, n) == IF n = 0 THEN << >> ELSE <<x>> \o Repeat(x, n - 1)

ProbeRecord == RequestMetrics(0, "GET", "/health", 200, 1, None, None)

InitHealth ==
    /\ now = 0
    /\ \E k \in BaseLoads :
           StoreIs(IngestAll(NewStore(DefaultMaxHistory), Repeat(ProbeRecord, k)))
    /\ NoHealth /\ NoAlerts /\ NoThreads /\ NoRequests /\ NoOther

HealthRecordRequest ==
    /\ Cardinality(SubmittedFor("GET /a")) < MaxHealthRequests
    /\ \E status \in Statuses :
           StoreRecord(RequestMetrics(now, "GET", "/a", status, 1, None, None))
    /\ health_result' = None
    /\ UNCHANGED <<now, alertVars, concVars, mwVars, otherVars>>

HealthRecordSystemMetrics ==
    /\ Len(system_metrics) < MaxHealthSnapshots
    /\ \E cpu \in CpuSamples, mem \in MemorySamples :
           StoreSnapshot(Some(Sample(cpu, mem, 0)))
    /\ health_result' = None
    /\ UNCHANGED <<now, alertVars, concVars, mwVars, otherVars>>

HealthTick ==
    /\ \E t \in HealthClock : t > now /\ now' = t
    /\ health_result' = None
    /\ UNCHANGED <<storeVars, alertVars, concVars, mwVars, otherVars>>

HealthGetHealthStatus ==
    /\ health_result' = Some(GetHealthStatus(FALSE))
    /\ UNCHANGED <<now, storeVars, alertVars, concVars, mwVars, otherVars>>

NextHealth ==
    \/ HealthRecordRequest
    \/ HealthRecordSystemMetrics
    \/ HealthTick
    \/ HealthGetHealthStatus

SpecHealth == InitHealth /\ [][NextHealth]_vars

\* The buffered records of the trailing five minutes and their errors, counted
\* from the buffer itself.
TrailingRequests ==
    {i \in 1..Len(request_metrics) : request_metrics[i].timestamp >= now - 300}

TrailingErrors == {i \in TrailingRequests : request_metrics[i].status_code >= 400}

\* over 10% of the trailing requests are errors
ErrorRateHigh == 10 * Cardinality(TrailingErrors) > Cardinality(TrailingRequests)

LatestSnapshot == system_metrics[Len(system_metrics)]

\* C5: with a most recent snapshot, the status is healthy when no condition
\* holds, degraded when CPU > 80 or memory > 85 and the error rate is at most
\* 10%, unhealthy whenever the error rate is over 10%; issues has exactly one
\* entry for each condition that holds.
C5_StatusFromConditions ==
    (health_result # None /\ Len(system_metrics) > 0) =>
        LET h == health_result[1]
            cpuHigh == LatestSnapshot.cpu_percent > 80
            memHigh == LatestSnapshot.memory_percent > 85
            expected == (IF cpuHigh THEN {"High CPU usage"} ELSE {})
                        \cup (IF memHigh THEN {"High memory usage"} ELSE {})
                        \cup (IF ErrorRateHigh THEN {"High error rate"} ELSE {})
        IN  /\ h.status = IF ErrorRateHigh THEN "unhealthy"
                          ELSE IF cpuHigh \/ memHigh THEN "degraded"
                          ELSE "healthy"
            /\ {h.issues[i] : i \in 1..Len(h.issues)} = expected
            /\ Len(h.issues) = Cardinality(expected)

\* High CPU together with a high error rate: unhealthy, both issues listed.
C5_Witness ==
    /\ health_result # None
    /\ Len(system_metrics) > 0
    /\ LatestSnapshot.cpu_percent > 80
    /\ ErrorRateHigh
    /\ health_result[1].status = "unhealthy"
    /\ health_result[1].issues = <<"High CPU usage", "High error rate">>

\* C6: whenever over 10% of the trailing five minutes' requests are errors,
\* get_health_status reports that error rate, status unhealthy and the
\* high-error-rate issue, whatever else the store holds.
C6_HighErrorRateIsUnhealthy ==
    (health_result # None /\ ErrorRateHigh) =>
        LET h == health_result[1]
        IN  /\ h.metrics.error_rate.num * Cardinality(TrailingRequests)
                   = Cardinality(TrailingErrors) * h.metrics.error_rate.den
            /\ h.status = "unhealthy"
            /\ \E i \in 1..Len(h.issues) : h.issues[i] = "High error rate"

-----------------------------------------------------------------------------
(* AlertManager *)

\* alert_cooldown = timedelta(minutes=5)
AlertCooldown == 300

\* alert_thresholds; error_rate 0.05 is 1/20, response_time_p95 2.0 s is 20
\* tenths of a second
ErrorRateThreshold == Ratio(1, 20)
ResponseTimeThreshold == Ratio(20, 1)
CpuThreshold == 80
MemoryThreshold == 85
DiskThreshold == 90

AlertTypes ==
    {"high_error_rate", "slow_response_time", "high_cpu_usage", "high_memory_usage"}

\* The state of one alert manager call: the cooldown table, the ALERT log
\* calls made, and whether the call ended by raising.
AlertState(ah, al, raised) == [alert_history |-> ah, alerts |-> al, raised |-> raised]

\* A faulty _trigger_alert that fires whatever the cooldown table says.
TriggerAlertWithoutCooldown(st, alert_type, severity) ==
    AlertState(DictSet(st.alert_history, alert_type, now),
               Append(st.alerts,
                      [alert_type |-> alert_type, severity |-> severity, at |-> now]),
               alert_log_enabled)

\* A faulty _trigger_alert that restarts the cooldown of a suppressed alert.
TriggerAlertExtendsCooldown(st, alert_type, severity) ==
    LET last_alert == IF alert_type \in DOMAIN st.alert_history
                      THEN Some(st.alert_history[alert_type]) ELSE None
    IN  IF last_alert # None /\ (now - last_alert[1]) < AlertCooldown
        THEN AlertState(DictSet(st.alert_history, alert_type, now), st.alerts, FALSE)
        ELSE AlertState(DictSet(st.alert_history, alert_type, now),
                        Append(st.alerts,
                               [alert_type |-> alert_type, severity |-> severity,
                                at |-> now]),
                        alert_log_enabled)

\* _trigger_alert.  A datetime is always true, so `if last_alert and ...` asks
\* whether the type has fired before.  Past the cooldown test the call records
\* the time and hands the alert to self.logger.log(..., extra={..., "message":
\* message, ...}); logging.Logger.makeRecord refuses an extra key named
\* "message" with a KeyError, so whenever the logger is enabled for the level
\* the call ends by raising, after alert_history was updated.
TriggerAlert(st, alert_type, severity) ==
    LET last_alert == IF alert_type \in DOMAIN st.alert_history
                      THEN Some(st.alert_history[alert_type]) ELSE None
    IN  IF last_alert # None /\ (now - last_alert[1]) < AlertCooldown
        THEN AlertState(st.alert_history, st.alerts, FALSE)
        ELSE AlertState(DictSet(st.alert_history, alert_type, now),
                        Append(st.alerts,
                               [alert_type |-> alert_type, severity |-> severity,
                                at |-> now]),
                        alert_log_enabled)

\* Truth value of an Optional[float] kept as a ratio: None and 0.0 are false.
TruthyRatio(x) == x # None /\ x[1].num # 0

\* The four tests of check_alerts on the health status h, in the order the code
\* makes them; each is <<holds, alert type, severity>>.
AlertConditions(h) ==
    << <<RatioGT(h.metrics.error_rate, ErrorRateThreshold),
         "high_error_rate", "critical">>,
       <<TruthyRatio(h.metrics.avg_response_time)
            /\ RatioGT(h.metrics.avg_response_time[1], ResponseTimeThreshold),
         "slow_response_time", "warning">>,
       <<TruthyInt(h.metrics.cpu_percent)
            /\ h.metrics.cpu_percent[1] > CpuThreshold,
         "high_cpu_usage", "warning">>,
       <<TruthyInt(h.metrics.memory_percent)
            /\ h.metrics.memory_percent[1] > MemoryThreshold,
         "high_memory_usage", "critical">> >>

\* What one check_alerts run did: the alert state it left, the alert types whose
\* test it reached, and whether an exception ended it (caught and logged).
CheckRun(st, evaluated, failed) ==
    [state |-> st, evaluated |-> evaluated, failed |-> failed]

\* The body of check_alerts from test number i on.  An exception raised by
\* _trigger_alert leaves the try block: the tests after it are not made.
RECURSIVE RunChecks(_, _, _, _)
RunChecks(st, cs, i, evaluated) ==
    IF i > Len(cs) THEN CheckRun(st, evaluated, FALSE)
    ELSE LET c == cs[i]
             reached == evaluated \cup {c[2]}
         IN  IF c[1]
             THEN LET after == TriggerAlert(st, c[2], c[3])
                  IN  IF after.raised
                      THEN CheckRun(after, reached, TRUE)
                      ELSE RunChecks(after, cs, i + 1, reached)
             ELSE RunChecks(st, cs, i + 1, reached)

\* check_alerts.  A health status without "metrics" (get_health_status answered
\* from its except branch) makes the first lookup raise KeyError, which the one
\* try block around all four tests catches.
CheckAlertsRun(failed) ==
    LET h == GetHealthStatus(failed)
        st == AlertState(alert_history, alerts, FALSE)
    IN  IF "metrics" \in DOMAIN h
        THEN RunChecks(st, AlertConditions(h), 1, {})
        ELSE CheckRun(st, {"high_error_rate"}, TRUE)

-----------------------------------------------------------------------------
(* Specification SpecCooldown: direct _trigger_alert calls as time passes *)

CooldownClock == {0, 60, 300, 301}

SeverityOf(alert_type) ==
    IF alert_type \in {"high_error_rate", "high_memory_usage"}
    THEN "critical" ELSE "warning"

InitCooldown ==
    /\ now = 0
    /\ StoreIs(NewStore(DefaultMaxHistory))
    /\ NoHealth /\ NoThreads /\ NoRequests /\ NoOther
    /\ alert_history = EmptyDict
    /\ alerts = << >>
    /\ alert_log_enabled \in BOOLEAN
    /\ last_check = None

\* a direct _trigger_alert call (a KeyError from the logger call goes to the
\* caller; the cooldown table was updated before it)
CooldownTrigger ==
    /\ \E alert_type \in AlertTypes :
           LET after == TriggerAlert(AlertState(alert_history, alerts, FALSE),
                                     alert_type, SeverityOf(alert_type))
           IN  /\ alert_history' = after.alert_history
               /\ alerts' = after.alerts
    /\ UNCHANGED <<now, storeVars, healthVars, alert_log_enabled, last_check,
                   concVars, mwVars, otherVars>>

CooldownTick ==
    /\ \E t \in CooldownClock : t > now /\ now' = t
    /\ UNCHANGED <<storeVars, healthVars, alertVars, concVars, mwVars, otherVars>>

NextCooldown == CooldownTrigger \/ CooldownTick

SpecCooldown == InitCooldown /\ [][NextCooldown]_vars

\* the times at which alerts of the type were handed to the logger
FiredAt(alert_type) ==
    {alerts[i].at : i \in {j \in 1..Len(alerts) : alerts[j].alert_type = alert_type}}

FiredCount(alert_type) ==
    Cardinality({j \in 1..Len(alerts) : alerts[j].alert_type = alert_type})

\* C4: two alerts of one type are never less than the five-minute cooldown
\* apart: after a first alert at t=0, a trigger at t=60 adds none, and a trigger
\* at t=301 adds the second.
C4_CooldownBetweenAlerts ==
    \A i, j \in 1..Len(alerts) :
        (i < j /\ alerts[i].alert_type = alerts[j].alert_type)
            => alerts[j].at - alerts[i].at >= 300

\* An alert at t=0, none of that type at t=60, the second at t=301.
C4_Witness ==
    /\ now = 301
    /\ FiredAt("high_cpu_usage") = {0, 301}
    /\ FiredCount("high_cpu_usage") = 2

-----------------------------------------------------------------------------
(* Specification SpecAlert: check_alerts runs over a store that takes      *)
(* requests and system snapshots                                           *)

MaxAlertRequests == 1
MaxAlertSnapshots == 1

AlertClock == {0, 60, 301}
DiskSamples == {90, 91}
\* request durations, in tenths of a second
Durations == {20, 21}

InitAlert ==
    /\ now = 0
    /\ StoreIs(NewStore(DefaultMaxHistory))
    /\ NoHealth /\ NoThreads /\ NoRequests /\ NoOther
    /\ alert_history = EmptyDict
    /\ alerts = << >>
    /\ alert_log_enabled \in BOOLEAN
    /\ last_check = None

AlertRecordRequest ==
    /\ Len(submitted) < MaxAlertRequests
    /\ \E status \in Statuses, duration \in Durations :
           StoreRecord(RequestMetrics(now, "GET", "/a", status, duration, None, None))
    /\ last_check' = None
    /\ UNCHANGED <<now, healthVars, alert_history, alerts, alert_log_enabled,
                   concVars, mwVars, otherVars>>

\* record_system_metrics; the sample is None when psutil raised
AlertRecordSystemMetrics ==
    /\ Len(system_metrics) < MaxAlertSnapshots
    /\ \E sampled \in {None} \cup
              {Some(Sample(cpu, mem, disk)) :
                   cpu \in CpuSamples, mem \in MemorySamples, disk \in DiskSamples} :
           StoreSnapshot(sampled)
    /\ last_check' = None
    /\ UNCHANGED <<now, healthVars, alert_history, alerts, alert_log_enabled,
                   concVars, mwVars, otherVars>>

\* check_alerts; failed: get_health_status raised inside its try block
CheckAlerts ==
    /\ \E failed \in BOOLEAN :
           LET run == CheckAlertsRun(failed)
           IN  /\ alert_history' = run.state.alert_history
               /\ alerts' = run.state.alerts
               /\ last_check' = Some([evaluated |-> run.evaluated,
                                      failed |-> run.failed,
                                      health_failed |-> failed,
                                      alerts_before |-> Len(alerts),
                                      history_before |-> alert_history])
    /\ UNCHANGED <<now, storeVars, healthVars, alert_log_enabled, concVars, mwVars, otherVars>>

AlertTick ==
    /\ \E t \in AlertClock : t > now /\ now' = t
    /\ last_check' = None
    /\ UNCHANGED <<storeVars, healthVars, alert_history, alerts, alert_log_enabled,
                   concVars, mwVars, otherVars>>

NextAlert ==
    \/ AlertRecordRequest
    \/ AlertRecordSystemMetrics
    \/ CheckAlerts
    \/ AlertTick

SpecAlert == InitAlert /\ [][NextAlert]_vars

\* the alerts the latest check_alerts run handed to the logger
FiredInRun == {alerts[i] : i \in (last_check[1].alerts_before + 1)..Len(alerts)}

\* the alert type was outside its cooldown when the latest run began
OutsideCooldown(alert_type) ==
    LET before == last_check[1].history_before
    IN  alert_type \notin DOMAIN before \/ now - before[alert_type] >= 300

\* the threshold's current metric is over its limit, read from the store
Exceeded(threshold) ==
    CASE threshold = "error_rate" ->
             20 * Cardinality(TrailingErrors) > Cardinality(TrailingRequests)
      [] threshold = "response_time_p95" ->
             /\ Len(system_metrics) > 0
             /\ LatestSnapshot.avg_response_time.num
                    > 20 * LatestSnapshot.avg_response_time.den
      [] threshold = "cpu_percent" ->
             Len(system_metrics) > 0 /\ LatestSnapshot.cpu_percent > 80
      [] threshold = "memory_percent" ->
             Len(system_metrics) > 0 /\ LatestSnapshot.memory_percent > 85
      [] threshold = "disk_percent" ->
             Len(system_metrics) > 0 /\ LatestSnapshot.disk_percent > 90

AlertOf(threshold) ==
    CASE threshold = "error_rate" -> "high_error_rate"
      [] threshold = "response_time_p95" -> "slow_response_time"
      [] threshold = "cpu_percent" -> "high_cpu_usage"
      [] threshold = "memory_percent" -> "high_memory_usage"
      [] threshold = "disk_percent" -> "high_disk_usage"

ThresholdNames ==
    {"error_rate", "response_time_p95", "cpu_percent", "memory_percent", "disk_percent"}

\* C9: in every check_alerts run that obtained the health metrics, each of the five thresholds whose metric is
\* over its limit and whose alert type is outside its cooldown fires an alert
\* of that type; error rate and memory are critical, latency and CPU warning.
C9_EveryExceededThresholdFires ==
    (last_check # None /\ ~last_check[1].health_failed) =>
        /\ \A th \in ThresholdNames :
               (Exceeded(th) /\ OutsideCooldown(AlertOf(th)))
                   => \E a \in FiredInRun : a.alert_type = AlertOf(th)
        /\ \A a \in FiredInRun :
               a.severity = IF a.alert_type \in {"high_error_rate", "high_memory_usage"}
                            THEN "critical" ELSE "warning"

\* C10: a check_alerts run in which evaluating one condition failed still
\* evaluates every other condition, and fires those that hold outside their
\* cooldown.
C10_FailureDoesNotStopOtherChecks ==
    (last_check # None /\ last_check[1].failed) =>
        /\ last_check[1].evaluated = AlertTypes
        /\ \A th \in ThresholdNames \ {"disk_percent"} :
               (Exceeded(th) /\ OutsideCooldown(AlertOf(th)))
                   => \E a \in FiredInRun : a.alert_type = AlertOf(th)

-----------------------------------------------------------------------------
(* Specification SpecConc: threads calling record_request on one store.    *)
(* record_request is taken apart into the steps another thread could come  *)
(* between if the lock did not keep it out.                                *)

NumThreads == 2
CallsPerThread == 3
ConcCap == 4

Threads == 1..NumThreads

\* the record of a thread's call number i (test_metrics_collector_thread_safety)
ConcRecord(i) ==
    RequestMetrics(now, "GET", "/test/" \o ToString(i), 200, 1, None, None)

NextRecord(t) == ConcRecord(threads[t].done)

\* A faulty record_request that does not take the lock.
LockIgnored == TRUE

\* `with self._lock:` lets a thread in only while no thread holds the lock
LockFree == lock = None

InitConc ==
    /\ now = 0
    /\ StoreIs(NewStore(ConcCap))
    /\ NoHealth /\ NoAlerts /\ NoRequests /\ NoOther
    /\ lock = None
    /\ threads = [t \in Threads |-> [pc |-> "idle", done |-> 0, count |-> 0]]

ConcFrame == UNCHANGED <<now, max_history, system_metrics, healthVars, alertVars, mwVars, otherVars>>

\* with self._lock: (enter)
ConcAcquire(t) ==
    /\ threads[t].pc = "idle"
    /\ threads[t].done < CallsPerThread
    /\ LockFree
    /\ lock' = Some(t)
    /\ threads' = [threads EXCEPT ![t].pc = "append"]
    /\ UNCHANGED <<request_metrics, endpoint_stats, error_counts, user_activity,
                   submitted>>
    /\ ConcFrame

\* self.request_metrics.append(metrics)
ConcAppend(t) ==
    /\ threads[t].pc = "append"
    /\ request_metrics' = DequeAppend(request_metrics, NextRecord(t), max_history)
    /\ submitted' = Append(submitted, NextRecord(t))
    /\ threads' = [threads EXCEPT ![t].pc = "load"]
    /\ UNCHANGED <<lock, endpoint_stats, error_counts, user_activity>>
    /\ ConcFrame

\* stats = self.endpoint_stats[endpoint_key]; the read of stats['count'] += 1
ConcLoadCount(t) ==
    /\ threads[t].pc = "load"
    /\ LET k == EndpointKey(NextRecord(t))
           stats == DefaultGet(endpoint_stats, k, NewEndpointStat)
       IN  /\ endpoint_stats' = DictSet(endpoint_stats, k, stats)
           /\ threads' = [threads EXCEPT ![t].pc = "store", ![t].count = stats.count]
    /\ UNCHANGED <<lock, request_metrics, error_counts, user_activity, submitted>>
    /\ ConcFrame

\* the write of stats['count'] += 1
ConcStoreCount(t) ==
    /\ threads[t].pc = "store"
    /\ LET k == EndpointKey(NextRecord(t))
       IN  endpoint_stats' =
               [endpoint_stats EXCEPT ![k].count = threads[t].count + 1]
    /\ threads' = [threads EXCEPT ![t].pc = "rest"]
    /\ UNCHANGED <<lock, request_metrics, error_counts, user_activity, submitted>>
    /\ ConcFrame

\* the rest of the body: total_time, last_accessed, the error and user tallies
ConcRest(t) ==
    /\ threads[t].pc = "rest"
    /\ LET m == NextRecord(t)
           k == EndpointKey(m)
           after == EndpointStatsAfter(endpoint_stats, m)[k]
       IN  endpoint_stats' =
               [endpoint_stats EXCEPT ![k] =
                    [after EXCEPT !.count = endpoint_stats[k].count]]
    /\ error_counts' = ErrorCountsAfter(error_counts, NextRecord(t))
    /\ user_activity' = UserActivityAfter(user_activity, NextRecord(t))
    /\ threads' = [threads EXCEPT ![t].pc = "release"]
    /\ UNCHANGED <<lock, request_metrics, submitted>>
    /\ ConcFrame

\* with self._lock: (leave); record_request returns
ConcRelease(t) ==
    /\ threads[t].pc = "release"
    /\ lock' = None
    /\ threads' = [threads EXCEPT ![t].pc = "idle", ![t].done = @ + 1]
    /\ UNCHANGED <<request_metrics, endpoint_stats, error_counts, user_activity,
                   submitted>>
    /\ ConcFrame

NextConc ==
    \E t \in Threads :
        \/ ConcAcquire(t)
        \/ ConcAppend(t)
        \/ ConcLoadCount(t)
        \/ ConcStoreCount(t)
        \/ ConcRest(t)
        \/ ConcRelease(t)

SpecConc == InitConc /\ [][NextConc]_vars

AllThreadsDone ==
    \A t \in Threads : threads[t].pc = "idle" /\ threads[t].done = CallsPerThread

RECURSIVE SumCounts(_)
SumCounts(keys) ==
    IF keys = {} THEN 0
    ELSE LET k == CHOOSE x \in keys : TRUE
         IN  endpoint_stats[k].count + SumCounts(keys \ {k})

\* C3: once N threads have each made M record_request calls, no update is
\* lost: the counts sum to N*M, each key's count is the number of records
\* submitted for it, and the buffer holds min(N*M, capacity) records.
C3_NoLostUpdate ==
    AllThreadsDone =>
        /\ SumCounts(DOMAIN endpoint_stats) = NumThreads * CallsPerThread
        /\ \A k \in SubmittedKeys :
               /\ k \in DOMAIN endpoint_stats
               /\ endpoint_stats[k].count = Cardinality(SubmittedFor(k))
        /\ Len(request_metrics) =
               IF NumThreads * CallsPerThread < max_history
               THEN NumThreads * CallsPerThread ELSE max_history

\* All threads are done and they have written to a key they share.
C3_Witness ==
    /\ AllThreadsDone
    /\ Len(submitted) = NumThreads * CallsPerThread
    /\ \E k \in DOMAIN endpoint_stats : endpoint_stats[k].count = NumThreads

-----------------------------------------------------------------------------
(* MonitoringMiddleware.__call__ *)

\* How the wrapped application's call ends: it returns, it raises an exception
\* of class Exception, or it raises a BaseException that is not an Exception
\* (asyncio.CancelledError, SystemExit, KeyboardInterrupt).
AppOutcomes == {"return", "Exception", "BaseException"}

\* What __call__ does once `await self.app(scope, receive, send_wrapper)` has
\* ended: the status it records, the records it submits, and what its own
\* caller then sees, in order.
Exit(status_code, records, events, propagated) ==
    [status_code |-> status_code, records |-> records, events |-> events,
     propagated |-> propagated]

\* A faulty __call__ that records after the await instead of in a finally block.
MiddlewareExitRecordsOnSuccessOnly(req, outcome) ==
    IF outcome = "return"
    THEN Exit(req.status_code,
              <<RequestMetrics(now, req.method, req.path, req.status_code,
                               10 * (now - req.start_time), None, None)>>,
              <<"recorded", "returned">>, "none")
    ELSE Exit(500, << >>, <<"propagated">>, outcome)

\* A faulty __call__ whose except block does not re-raise.
MiddlewareExitSwallows(req, outcome) ==
    LET status_code == IF outcome = "Exception" THEN 500 ELSE req.status_code
    IN  Exit(status_code,
             <<RequestMetrics(now, req.method, req.path, status_code,
                              10 * (now - req.start_time), None, None)>>,
             <<"recorded", "returned">>, "none")

\* try: await self.app(...) / except Exception: status 500, log, raise /
\* finally: record_request(...), log.  `except Exception` does not catch a
\* BaseException; the finally block runs on every way out, and the exception,
\* if any, goes on to the caller after it.
MiddlewareExit(req, outcome) ==
    LET status_code == IF outcome = "Exception" THEN 500 ELSE req.status_code
    IN  Exit(status_code,
             <<RequestMetrics(now, req.method, req.path, status_code,
                              10 * (now - req.start_time), None, None)>>,
             <<"recorded", IF outcome = "return" THEN "returned" ELSE "propagated">>,
             IF outcome = "return" THEN "none" ELSE outcome)

-----------------------------------------------------------------------------
(* Specification SpecMiddleware: requests in flight through the middleware *)

MaxMwRequests == 2

MwClock == {0, 1}
ScopeTypes == {"http", "websocket"}
ResponseStatuses == {200, 404}

RequestIds == 1..MaxMwRequests

NewRequest ==
    [pc |-> "new", scope_type |-> "", method |-> "", path |-> "", start_time |-> 0,
     status_code |-> 0, sent |-> << >>, handler |-> "", propagated |-> "",
     events |-> << >>, recorded |-> << >>]

InitMiddleware ==
    /\ now = 0
    /\ StoreIs(NewStore(DefaultMaxHistory))
    /\ NoHealth /\ NoAlerts /\ NoThreads
    /\ requests = [r \in RequestIds |-> NewRequest]
    /\ NoOther

MwFrame == UNCHANGED <<now, healthVars, alertVars, concVars, otherVars>>

\* __call__ up to the await of the wrapped application
MwCall(r) ==
    /\ requests[r].pc = "new"
    /\ \E scope_type \in ScopeTypes :
           requests' = [requests EXCEPT ![r] =
               IF scope_type = "http"
               THEN [@ EXCEPT !.pc = "in_app", !.scope_type = scope_type,
                              !.method = "GET", !.path = "/a",
                              !.start_time = now, !.status_code = 200]
               ELSE [@ EXCEPT !.pc = "passthrough", !.scope_type = scope_type]]
    /\ UNCHANGED storeVars
    /\ MwFrame

\* send_wrapper, called by the application with its http.response.start message
MwSendStart(r) ==
    /\ requests[r].pc = "in_app"
    /\ requests[r].sent = << >>
    /\ \E status \in ResponseStatuses :
           requests' = [requests EXCEPT ![r].status_code = status,
                                        ![r].sent = <<status>>]
    /\ UNCHANGED storeVars
    /\ MwFrame

\* the wrapped application's call ends; the except and finally blocks run
MwAppEnds(r) ==
    /\ requests[r].pc = "in_app"
    /\ \E outcome \in AppOutcomes :
           LET exit == MiddlewareExit(requests[r], outcome)
           IN  /\ requests' = [requests EXCEPT
                      ![r].pc = "done", ![r].handler = outcome,
                      ![r].status_code = exit.status_code,
                      ![r].propagated = exit.propagated,
                      ![r].events = exit.events,
                      ![r].recorded = exit.records]
               /\ IF exit.records = << >> THEN UNCHANGED storeVars
                  ELSE StoreRecord(exit.records[1])
    /\ MwFrame

\* a scope that is not "http": the application is awaited and nothing recorded
MwPassThroughEnds(r) ==
    /\ requests[r].pc = "passthrough"
    /\ \E outcome \in AppOutcomes :
           requests' = [requests EXCEPT
               ![r].pc = "done", ![r].handler = outcome,
               ![r].propagated = IF outcome = "return" THEN "none" ELSE outcome,
               ![r].events = <<IF outcome = "return" THEN "returned" ELSE "propagated">>]
    /\ UNCHANGED storeVars
    /\ MwFrame

MwTick ==
    /\ \E t \in MwClock : t > now /\ now' = t
    /\ UNCHANGED <<storeVars, healthVars, alertVars, concVars, mwVars, otherVars>>

NextMiddleware ==
    \/ \E r \in RequestIds :
           \/ MwCall(r)
           \/ MwSendStart(r)
           \/ MwAppEnds(r)
           \/ MwPassThroughEnds(r)
    \/ MwTick

SpecMiddleware == InitMiddleware /\ [][NextMiddleware]_vars

HttpDone(r) == requests[r].pc = "done" /\ requests[r].scope_type = "http"

\* Every record in the store was submitted for exactly one finished request.
OneRecordEach ==
    /\ \A r \in RequestIds : HttpDone(r) => Len(requests[r].recorded) = 1
    /\ Len(submitted) = Cardinality({r \in RequestIds : HttpDone(r)})

\* C7 as stated: each HTTP request yields exactly one record, whose status is
\* 500 if the handler raised and else the status of the start message sent.
C7_OneRecordWithFinalStatus ==
    /\ OneRecordEach
    /\ \A r \in RequestIds :
           (HttpDone(r) /\ requests[r].recorded # << >>) =>
               LET status == requests[r].recorded[1].status_code
               IN  /\ requests[r].handler # "return" => status = 500
                   /\ (requests[r].handler = "return" /\ requests[r].sent # << >>)
                          => status = requests[r].sent[1]

\* C7 amended: each HTTP request yields exactly one record; its status is 500
\* if the handler raised an Exception, and otherwise - on a normal return and on
\* a BaseException that is not an Exception - the status of the start message
\* sent, or 200 if none was sent.
C7_OneRecordStatusByExceptionClass ==
    /\ OneRecordEach
    /\ \A r \in RequestIds :
           (HttpDone(r) /\ requests[r].recorded # << >>) =>
               requests[r].recorded[1].status_code =
                   IF requests[r].handler = "Exception" THEN 500
                   ELSE IF requests[r].sent # << >> THEN requests[r].sent[1]
                   ELSE 200

\* A handler that sent 404 and returned, and one that sent 200 and then raised
\* an Exception: one record each, with 404 and with 500.
C7_Witness ==
    /\ \E r \in RequestIds :
           /\ HttpDone(r) /\ requests[r].handler = "return"
           /\ requests[r].sent = <<404>>
           /\ requests[r].recorded[1].status_code = 404
    /\ \E r \in RequestIds :
           /\ HttpDone(r) /\ requests[r].handler = "Exception"
           /\ requests[r].sent = <<200>>
           /\ requests[r].recorded[1].status_code = 500
    /\ Len(submitted) = 2

\* C8: when the handler of an HTTP request raises, the record is written first
\* and the same exception then propagates to the middleware's caller.
C8_RecordThenPropagate ==
    \A r \in RequestIds :
        (HttpDone(r) /\ requests[r].handler # "return") =>
            /\ requests[r].events = <<"recorded", "propagated">>
            /\ requests[r].propagated = requests[r].handler
            /\ Len(requests[r].recorded) = 1
            /\ \E i \in 1..Len(request_metrics) :
                   request_metrics[i] = requests[r].recorded[1]

\* A handler raised: its record is in the store and the exception went on.
C8_Witness ==
    \E r \in RequestIds :
        /\ HttpDone(r) /\ requests[r].handler = "Exception"
        /\ requests[r].propagated = "Exception"
        /\ requests[r].events = <<"recorded", "propagated">>
        /\ Len(request_metrics) >= 1

-----------------------------------------------------------------------------
(* The aggregator: MetricsCollector.get_metrics_summary *)

OneHour == 3600

\* The instant the model calls 0 lies this many whole hours after datetime.min
\* and this many before datetime.max (the figures of a clock in the 2020s).
HoursSinceDatetimeMin == 17750000
HoursUntilDatetimeMax == 69890000

\* start_time = now - timedelta(hours=hours) is a datetime only within
\* datetime.min .. datetime.max; outside it the subtraction raises
\* OverflowError.  The test is made in whole hours.
WindowStartRepresentable(hours) ==
    /\ hours - HoursSinceDatetimeMin <= now \div OneHour
    /\ hours + HoursUntilDatetimeMax >= (now + OneHour - 1) \div OneHour

\* [m.duration for m in period_requests]
ResponseTimes(ms) == [i \in 1..Len(ms) |-> ms[i].duration]

RECURSIVE InsertSorted(_, _)
InsertSorted(s, x) ==
    IF s = << >> THEN <<x>>
    ELSE IF Head(s) <= x THEN <<Head(s)>> \o InsertSorted(Tail(s), x)
    ELSE <<x>> \o s

\* sorted(times)
RECURSIVE Sorted(_)
Sorted(times) ==
    IF times = << >> THEN << >>
    ELSE InsertSorted(Sorted(SubSeq(times, 1, Len(times) - 1)), times[Len(times)])

\* A faulty index: the rank below the interpolation point of n - 1 intervals.
PercentileIndexOfIntervals(n, percent) == ((n - 1) * percent) \div 100

\* int(len(times) * 0.95), int(len(times) * 0.99): percent is 95 or 99.  The
\* float product truncates to the exact floor for every length up to 10000.
PercentileIndex(n, percent) == (n * percent) \div 100

\* sorted(times)[index], the index counted from 0 as Python does
Percentile(times, percent) ==
    Sorted(times)[PercentileIndex(Len(times), percent) + 1]

\* endpoint_counts[key] += 1, the dict kept as its items() in insertion order
CountKey(items, k) ==
    IF \E i \in 1..Len(items) : items[i][1] = k
    THEN [i \in 1..Len(items) |->
              IF items[i][1] = k THEN <<k, items[i][2] + 1>> ELSE items[i]]
    ELSE Append(items, <<k, 1>>)

RECURSIVE EndpointCounts(_)
EndpointCounts(ms) ==
    IF ms = << >> THEN << >>
    ELSE CountKey(EndpointCounts(SubSeq(ms, 1, Len(ms) - 1)),
                  EndpointKey(ms[Len(ms)]))

RECURSIVE InsertByCount(_, _)
InsertByCount(s, x) ==
    IF s = << >> THEN <<x>>
    ELSE IF Head(s)[2] >= x[2] THEN <<Head(s)>> \o InsertByCount(Tail(s), x)
    ELSE <<x>> \o s

\* sorted(items, key=lambda x: x[1], reverse=True): stable, largest count first
RECURSIVE SortedByCount(_)
SortedByCount(items) ==
    IF items = << >> THEN << >>
    ELSE InsertByCount(SortedByCount(SubSeq(items, 1, Len(items) - 1)),
                       items[Len(items)])

TopEndpoints == 10

\* s[:n]
Take(s, n) == SubSeq(s, 1, IF n < Len(s) THEN n ELSE Len(s))

\* error_breakdown: the same test and tally as record_request's error_counts
RECURSIVE ErrorBreakdown(_)
ErrorBreakdown(ms) ==
    IF ms = << >> THEN EmptyDict
    ELSE ErrorCountsAfter(ErrorBreakdown(SubSeq(ms, 1, Len(ms) - 1)), ms[Len(ms)])

\* A faulty guard that never takes the "no data" way out.
NoDataNever(period_requests) == FALSE

\* if not period_requests:
NoData(period_requests) == period_requests = << >>

\* get_metrics_summary.  mutated: the pass over request_metrics raised
\* RuntimeError because the deque was appended to meanwhile.  Every exception
\* of the try body ends in the except branch, which answers {"error": str(e)}.
GetMetricsSummary(hours, mutated) ==
    IF ~WindowStartRepresentable(hours)
    THEN [error |-> "date value out of range"]
    ELSE IF mutated
    THEN [error |-> "deque mutated during iteration"]
    ELSE LET period_requests ==
                 RecentRequests(request_metrics, now, hours * OneHour)
             total_requests == Len(period_requests)
             response_times == ResponseTimes(period_requests)
         IN  IF NoData(period_requests)
             THEN [message |-> "No data available for the specified period"]
             ELSE IF total_requests = 0
             THEN [error |-> "division by zero"]
             ELSE [period_hours |-> hours,
                   total_requests |-> total_requests,
                   error_rate |-> Ratio(CountErrors(period_requests), total_requests),
                   response_times |->
                       [avg |-> Ratio(SumDurations(period_requests),
                                      Len(response_times)),
                        p95 |-> Percentile(response_times, 95),
                        p99 |-> Percentile(response_times, 99)],
                   top_endpoints |->
                       Take(SortedByCount(EndpointCounts(period_requests)),
                            TopEndpoints),
                   error_breakdown |-> ErrorBreakdown(period_requests),
                   timestamp |-> now]

-----------------------------------------------------------------------------
(* Specification SpecReaders: one thread calling record_request while      *)
(* another thread makes a reader's pass over request_metrics.  The three   *)
(* readers (get_health_status, get_metrics_summary, record_system_metrics) *)
(* iterate self.request_metrics itself, outside `with self._lock`.         *)

MaxReaderWrites == 2
MaxReaderPasses == 2
MaxPreloaded == 1

Readers == {"get_health_status", "get_metrics_summary", "record_system_metrics"}

Writer == 1

\* The mutation counter of the deque: every append bumps it.  The iterator
\* that `for m in self.request_metrics` makes remembers the value it saw and
\* raises RuntimeError("deque mutated during iteration") on a later one.
DequeState == Len(submitted)

Idle(passes) ==
    [pc |-> "idle", call |-> "", state |-> 0, index |-> 0, mutated |-> FALSE,
     snapshot |-> None, passes |-> passes]

InitReaders ==
    /\ now = 0
    /\ \E k \in 0..MaxPreloaded :
           StoreIs(IngestAll(NewStore(DefaultMaxHistory), Repeat(ProbeRecord, k)))
    /\ NoHealth /\ NoAlerts /\ NoRequests /\ NoTask /\ NoResponse /\ NoDb
    /\ lock = None
    /\ threads = [t \in {Writer} |-> [pc |-> "idle", done |-> 0, count |-> 0]]
    /\ reader = Idle(0)

ReadersFrame == UNCHANGED <<now, alertVars, mwVars, taskVars, dbVars>>

\* record_request: with self._lock: (enter)
WriterAcquire ==
    /\ threads[Writer].pc = "idle"
    /\ threads[Writer].done < MaxReaderWrites
    /\ LockFree
    /\ lock' = Some(Writer)
    /\ threads' = [threads EXCEPT ![Writer].pc = "append"]
    /\ UNCHANGED <<storeVars, healthVars, routeVars, reader>>
    /\ ReadersFrame

\* record_request: the body, run while the lock is held
WriterBody ==
    /\ threads[Writer].pc = "append"
    /\ StoreRecord(NextRecord(Writer))
    /\ threads' = [threads EXCEPT ![Writer].pc = "release"]
    /\ health_result' = None
    /\ response' = None
    /\ UNCHANGED <<lock, reader>>
    /\ ReadersFrame

\* record_request: with self._lock: (leave)
WriterRelease ==
    /\ threads[Writer].pc = "release"
    /\ lock' = None
    /\ threads' = [threads EXCEPT ![Writer].pc = "idle", ![Writer].done = @ + 1]
    /\ UNCHANGED <<storeVars, healthVars, routeVars, reader>>
    /\ ReadersFrame

\* A reader is called and reaches `for m in self.request_metrics`: the
\* iterator is made.  No lock is taken and no copy is made.
ReaderBegin ==
    /\ reader.pc = "idle"
    /\ reader.passes < MaxReaderPasses
    /\ \E call \in Readers :
           reader' = [Idle(reader.passes + 1) EXCEPT
                          !.pc = "iterating", !.call = call, !.state = DequeState]
    /\ UNCHANGED <<storeVars, healthVars, routeVars, concVars>>
    /\ ReadersFrame

\* What the reader does once its pass is over.  get_health_status and
\* get_metrics_summary return; record_system_metrics goes on to append the
\* snapshot it built, or logs the failure and returns.
PassOver(mutated) ==
    /\ reader' =
           IF reader.call = "record_system_metrics" /\ ~mutated
           THEN [reader EXCEPT !.pc = "append",
                               !.snapshot = Some(Snapshot(Sample(0, 0, 0)))]
           ELSE [Idle(reader.passes) EXCEPT !.call = reader.call,
                                            !.mutated = mutated]
    /\ health_result' =
           IF reader.call = "get_health_status"
           THEN Some(GetHealthStatus(mutated)) ELSE health_result
    /\ response' =
           IF reader.call = "get_metrics_summary"
           THEN Some([call |-> reader.call, hours |-> 1,
                      result |-> GetMetricsSummary(1, mutated)])
           ELSE response

\* next(iterator): RuntimeError if the deque was appended to since the
\* iterator was made, StopIteration after the last element, else one element.
ReaderNext ==
    /\ reader.pc = "iterating"
    /\ IF reader.state # DequeState THEN PassOver(TRUE)
       ELSE IF reader.index = Len(request_metrics) THEN PassOver(FALSE)
       ELSE /\ reader' = [reader EXCEPT !.index = @ + 1]
            /\ UNCHANGED <<healthVars, routeVars>>
    /\ UNCHANGED <<storeVars, concVars>>
    /\ ReadersFrame

\* record_system_metrics: with self._lock: self.system_metrics.append(metrics)
ReaderAppend ==
    /\ reader.pc = "append"
    /\ LockFree
    /\ system_metrics' =
           DequeAppend(system_metrics, reader.snapshot[1], SystemHistoryCap)
    /\ reader' = [Idle(reader.passes) EXCEPT !.call = reader.call]
    /\ health_result' = None
    /\ response' = None
    /\ UNCHANGED <<max_history, request_metrics, endpoint_stats, error_counts,
                   user_activity, submitted, concVars>>
    /\ ReadersFrame

NextReaders ==
    \/ WriterAcquire
    \/ WriterBody
    \/ WriterRelease
    \/ ReaderBegin
    \/ ReaderNext
    \/ ReaderAppend

SpecReaders == InitReaders /\ [][NextReaders]_vars

\* C11: the request buffer is changed only by a thread that holds the lock,
\* and while a reader's pass over the buffer is under way no record_request
\* has appended to the buffer since the pass began.
C11_NoAppendDuringPass ==
    /\ threads[Writer].pc \in {"append", "release"} => lock = Some(Writer)
    /\ reader.pc = "iterating" => reader.state = DequeState

-----------------------------------------------------------------------------
(* Specification SpecTask: the background system_metrics_task and the      *)
(* lifespan manager of main.py that starts and cancels it.  Both run on    *)
(* the one event loop: the lifespan code runs only while the task is       *)
(* suspended at an await (or has not started, or has ended).               *)

MaxIterations == 2

\* await asyncio.sleep(60)
SleepInterval == 60

\* A faulty loop whose handler is a bare `except:`.
CaughtByBareExcept(exc) == TRUE

\* A faulty loop without a handler.
CaughtByNothing(exc) == FALSE

\* `except Exception as e:` of system_metrics_task.  asyncio.CancelledError
\* derives from BaseException, not from Exception.
CaughtByLoop(exc) == exc = "Exception"

\* Where system_metrics_task stands after exc is raised at the place pc: inside
\* the try block the handler may take it (log, then sleep); anywhere else, and
\* for what the handler does not take, the exception ends the coroutine.
AfterRaise(pc, exc) ==
    IF pc \in {"record", "check", "sleep"} /\ CaughtByLoop(exc) THEN "error_sleep"
    ELSE IF exc = "CancelledError" THEN "cancelled"
    ELSE "crashed"

Suspended == task.pc \in {"pending", "sleep", "error_sleep"}

Ended == task.pc \in {"cancelled", "crashed"}

\* asyncio.create_task(system_metrics_task())
NewTask ==
    [pc |-> "pending", must_cancel |-> FALSE, iterations |-> 0, failures |-> 0,
     logged |-> 0, cancelled_at |-> "", last_record |-> None]

\* the task after a step of its iteration that ended by `outcome`
AfterCall(pc, next, outcome) ==
    IF outcome = "return" THEN [task EXCEPT !.pc = next, !.last_record = None]
    ELSE [task EXCEPT !.pc = AfterRaise(pc, outcome),
                      !.failures = @ + 1,
                      !.logged = IF CaughtByLoop(outcome) THEN @ + 1 ELSE @,
                      !.last_record = None]

\* How a call made by the loop ends.  record_system_metrics and check_alerts
\* each answer an exception of their body with logger.error(...) in an except
\* branch of their own and return; only an exception raised by that logging
\* call itself comes out of them.
HandlerOutcome(body_raised, log_raises) ==
    IF body_raised /\ log_raises THEN "Exception" ELSE "return"

\* what psutil reports in an iteration, None when a psutil call raised
TaskSamples == {None, Some(Sample(80, 85, 0)), Some(Sample(81, 86, 0))}

\* a request that failed before the task's first iteration
FailedRequest == RequestMetrics(0, "GET", "/a", 500, 1, None, None)

InitTask ==
    /\ now = 0
    /\ \E ms \in {<< >>, <<FailedRequest>>} :
           StoreIs(IngestAll(NewStore(DefaultMaxHistory), ms))
    /\ NoHealth /\ NoAlerts /\ NoThreads /\ NoRequests /\ NoReader /\ NoResponse /\ NoDb
    /\ task = NewTask
    /\ lifespan = "serving"

TaskFrame == UNCHANGED <<healthVars, concVars, mwVars, readVars, routeVars, dbVars>>

\* the event loop runs the task for the first time: while True: try:
TaskStart ==
    /\ task.pc = "pending"
    /\ ~task.must_cancel
    /\ task' = [task EXCEPT !.pc = "record", !.iterations = 1]
    /\ UNCHANGED <<now, storeVars, alertVars, lifespan>>
    /\ TaskFrame

\* metrics_collector.record_system_metrics(); the sample is None when psutil
\* raised
TaskRecord ==
    /\ task.pc = "record"
    /\ \E sampled \in TaskSamples, log_raises \in BOOLEAN :
           LET outcome == HandlerOutcome(sampled = None, log_raises)
           IN  /\ StoreSnapshot(sampled)
               /\ task' = [AfterCall("record", "check", outcome) EXCEPT
                               !.last_record =
                                   Some([sampled |-> sampled, outcome |-> outcome,
                                         before |-> Store,
                                         failures |-> task.failures])]
    /\ UNCHANGED <<now, alertVars, lifespan>>
    /\ TaskFrame

\* alert_manager.check_alerts(); failed: get_health_status raised inside its
\* try block
TaskCheck ==
    /\ task.pc = "check"
    /\ \E failed \in BOOLEAN, log_raises \in BOOLEAN :
           LET run == CheckAlertsRun(failed)
           IN  /\ alert_history' = run.state.alert_history
               /\ alerts' = run.state.alerts
               /\ task' = AfterCall("check", "sleep",
                                    HandlerOutcome(run.failed, log_raises))
    /\ UNCHANGED <<now, storeVars, alert_log_enabled, last_check, lifespan>>
    /\ TaskFrame

\* asyncio.sleep(60) is over, in the try block or in the handler: the next
\* iteration begins
TaskWake ==
    /\ task.pc \in {"sleep", "error_sleep"}
    /\ ~task.must_cancel
    /\ task.iterations < MaxIterations
    /\ now' = now + SleepInterval
    /\ task' = [task EXCEPT !.pc = "record", !.iterations = @ + 1,
                            !.last_record = None]
    /\ UNCHANGED <<storeVars, alertVars, lifespan>>
    /\ TaskFrame

\* The event loop resumes the cancelled task: CancelledError is raised at the
\* await the task is suspended at (at its start if it never ran).
TaskCancelled ==
    /\ Suspended
    /\ task.must_cancel
    /\ task' = [task EXCEPT !.pc = AfterRaise(task.pc, "CancelledError"),
                            !.must_cancel = FALSE,
                            !.cancelled_at = task.pc,
                            !.logged = IF task.pc = "sleep"
                                          /\ CaughtByLoop("CancelledError")
                                       THEN @ + 1 ELSE @,
                            !.last_record = None]
    /\ UNCHANGED <<now, storeVars, alertVars, lifespan>>
    /\ TaskFrame

\* lifespan, after the yield: metrics_task.cancel(), then await metrics_task
LifespanShutdown ==
    /\ lifespan = "serving"
    /\ Suspended \/ Ended
    /\ lifespan' = "awaiting"
    /\ task' = IF Ended THEN task ELSE [task EXCEPT !.must_cancel = TRUE]
    /\ UNCHANGED <<now, storeVars, alertVars>>
    /\ TaskFrame

\* await metrics_task is over: the task's CancelledError is caught and passed
\* over, any other exception of the task comes out of the lifespan manager
LifespanAwaited ==
    /\ lifespan = "awaiting"
    /\ Ended
    /\ lifespan' = IF task.pc = "cancelled" THEN "complete" ELSE "raised"
    /\ UNCHANGED <<now, storeVars, alertVars, task>>
    /\ TaskFrame

NextTask ==
    \/ TaskStart
    \/ TaskRecord
    \/ TaskCheck
    \/ TaskWake
    \/ TaskCancelled
    \/ LifespanShutdown
    \/ LifespanAwaited

SpecTask == InitTask /\ [][NextTask]_vars

\* The event loop resumes every task that is ready and fires every timer that
\* is due; nothing obliges the application to shut down.  (The calls between
\* two awaits of the task are synchronous code and need no scheduling.)
TaskFairness ==
    /\ WF_vars(TaskStart)
    /\ WF_vars(TaskWake)
    /\ WF_vars(TaskCancelled)
    /\ WF_vars(LifespanAwaited)

SpecTaskLive == SpecTask /\ TaskFairness

\* C12: while the task is not cancelled no iteration ends the loop, every
\* failed iteration is logged, and a failed iteration is followed, after the
\* interval sleep, by the next iteration (up to MaxIterations iterations).
C12_LoopSurvivesFailedIteration ==
    /\ [](Ended => lifespan # "serving")
    /\ [](task.pc # "crashed" /\ task.logged = task.failures)
    /\ (task.pc = "error_sleep" /\ task.iterations < MaxIterations)
           ~> (task.pc = "record" \/ lifespan # "serving")
    /\ [][task.pc = "error_sleep" /\ task'.pc = "record"
              => /\ task'.iterations = task.iterations + 1
                 /\ now' = now + SleepInterval]_vars

\* The second iteration has begun after a first one that failed.
C12_Witness ==
    /\ task.pc = "record"
    /\ task.iterations = 2
    /\ task.failures = 1
    /\ now = SleepInterval
    /\ lifespan = "serving"

\* C13: once the lifespan manager has cancelled the task and awaits it, the
\* task ends as cancelled from whichever await it was suspended at and the
\* shutdown completes; the loop's handler never takes the cancellation, and
\* a completed shutdown leaves no task running.
C13_ShutdownCompletes ==
    /\ (lifespan = "awaiting") ~> (lifespan = "complete" /\ task.pc = "cancelled")
    /\ [](task.cancelled_at # "" => task.pc = "cancelled")
    /\ [](lifespan = "complete" => task.pc = "cancelled")

\* The shutdown is complete and the cancellation reached the task in the
\* sleep of the error branch.
C13_Witness ==
    /\ lifespan = "complete"
    /\ task.pc = "cancelled"
    /\ task.cancelled_at = "error_sleep"
    /\ task.failures > 0

\* C17: when the sampling inside record_system_metrics raised (and the call
\* logged it), no snapshot was appended and no other field of the store
\* changed, nothing came out of the call, and the loop stands at its next
\* step, check_alerts.
C17_SamplingFailureSkipsSnapshot ==
    (task.last_record # None
        /\ task.last_record[1].sampled = None
        /\ task.last_record[1].outcome = "return")
    => /\ Store = task.last_record[1].before
       /\ task.pc = "check"
       /\ task.failures = task.last_record[1].failures

\* A sampling failure in the second iteration, with a snapshot of the first
\* iteration in the buffer.
C17_Witness ==
    /\ task.last_record # None
    /\ task.last_record[1].sampled = None
    /\ task.last_record[1].outcome = "return"
    /\ Len(system_metrics) = 1
    /\ task.iterations = 2

-----------------------------------------------------------------------------
(* Specification SpecSummary: get_metrics_summary calls on a store, as     *)
(* records arrive and time passes.  The store starts empty or holding the  *)
(* ten durations 0.1 .. 1.0 (in tenths of a second, submitted largest      *)
(* first).                                                                 *)

MaxSummaryRequests == 2

SummaryClock == {0, 3600, 3601, 7201}
SummaryHours == {-1, 0, 1, 2, 20000000}
SummaryDurations == {1, 11}

TenDurations ==
    [i \in 1..10 |->
        RequestMetrics(0, "GET", IF i % 2 = 0 THEN "/a" ELSE "/b", 200, 11 - i,
                       None, None)]

InitSummary ==
    /\ now = 0
    /\ \E ms \in {<< >>, TenDurations} :
           StoreIs(IngestAll(NewStore(DefaultMaxHistory), ms))
    /\ NoHealth /\ NoAlerts /\ NoThreads /\ NoRequests /\ NoOther

SummaryFrame == UNCHANGED <<healthVars, alertVars, concVars, mwVars, readVars, taskVars, dbVars>>

SummaryRecordRequest ==
    /\ Cardinality(SubmittedFor("POST /a")) < MaxSummaryRequests
    /\ \E status \in Statuses, duration \in SummaryDurations :
           StoreRecord(RequestMetrics(now, "POST", "/a", status, duration, None,
                                      IF status >= 400 THEN Some("E") ELSE None))
    /\ response' = None
    /\ UNCHANGED now
    /\ SummaryFrame

SummaryTick ==
    /\ \E t \in SummaryClock : t > now /\ now' = t
    /\ response' = None
    /\ UNCHANGED storeVars
    /\ SummaryFrame

\* a get_metrics_summary(hours) call
SummaryGetMetricsSummary ==
    /\ \E hours \in SummaryHours :
           response' = Some([call |-> "get_metrics_summary", hours |-> hours,
                             result |-> GetMetricsSummary(hours, FALSE)])
    /\ UNCHANGED <<now, storeVars>>
    /\ SummaryFrame

NextSummary ==
    \/ SummaryRecordRequest
    \/ SummaryTick
    \/ SummaryGetMetricsSummary

SpecSummary == InitSummary /\ [][NextSummary]_vars

\* the latest call was get_metrics_summary and nothing has changed since
SummaryAnswered == response # None /\ response[1].call = "get_metrics_summary"

\* The record's timestamp is inside the window of the last `hours` hours:
\* hours * 3600 >= now - timestamp, written without the product.
InWindow(m, hours) == hours >= (now - m.timestamp + OneHour - 1) \div OneHour

\* the buffered records inside the window, by position
Window(hours) ==
    {i \in 1..Len(request_metrics) : InWindow(request_metrics[i], hours)}

IsNoData(result) == DOMAIN result = {"message"}

\* the ratio was computed by a division that Python can make
Divisible(ratio) == ratio.den > 0

\* C14 (as claimed): for every h, a get_metrics_summary(hours=h) call on a
\* store with no buffered record inside the window answers the "no data"
\* indicator.
C14_EmptyWindowIsNoData ==
    (SummaryAnswered /\ Window(response[1].hours) = {})
        => IsNoData(response[1].result)

\* C14 (amended): for every h whose window start now - h hours is a datetime,
\* a call on a store with no buffered record inside the window answers the
\* "no data" indicator; for any other h the call answers {"error": ...}; and
\* no call divides by zero: every error rate and average it reports was
\* computed over at least one record.
C14_EmptyWindowIsNoDataInRange ==
    SummaryAnswered =>
        LET hours == response[1].hours
            result == response[1].result
        IN  /\ (WindowStartRepresentable(hours) /\ Window(hours) = {})
                   => IsNoData(result)
            /\ ("error" \in DOMAIN result) <=> ~WindowStartRepresentable(hours)
            /\ ("error_rate" \in DOMAIN result)
                   => /\ Window(hours) # {}
                      /\ Divisible(result.error_rate)
                      /\ Divisible(result.response_times.avg)

\* An empty window on a store that is not empty: the one buffered record is
\* older than the hour asked for.
C14_Witness ==
    /\ SummaryAnswered
    /\ response[1].hours = 1
    /\ Len(request_metrics) > 0
    /\ Window(1) = {}
    /\ IsNoData(response[1].result)

\* the durations of the window that are below, and not above, the value v
Below(hours, v) == {i \in Window(hours) : request_metrics[i].duration < v}
NotAbove(hours, v) == {i \in Window(hours) : request_metrics[i].duration <= v}

\* v is the element at index k (from 0) of the ascending-sorted durations
IsOrderStatistic(hours, v, k) ==
    /\ \E i \in Window(hours) : request_metrics[i].duration = v
    /\ Cardinality(Below(hours, v)) <= k
    /\ k < Cardinality(NotAbove(hours, v))

\* C15: a summary over a window of n durations reports as p95 and p99 the
\* elements at the indices floor(n * 0.95) and floor(n * 0.99) of the
\* ascending-sorted durations, both indices within 0 .. n-1; for the ten
\* durations 0.1 .. 1.0 both are the largest, 1.0.
C15_PercentilesByIndex ==
    (SummaryAnswered /\ "response_times" \in DOMAIN response[1].result) =>
        LET hours == response[1].hours
            result == response[1].result
            n == Cardinality(Window(hours))
        IN  /\ n = result.total_requests
            /\ (n * 95) \div 100 \in 0..(n - 1)
            /\ (n * 99) \div 100 \in 0..(n - 1)
            /\ IsOrderStatistic(hours, result.response_times.p95, (n * 95) \div 100)
            /\ IsOrderStatistic(hours, result.response_times.p99, (n * 99) \div 100)
            /\ {request_metrics[i].duration : i \in Window(hours)} = 1..10 /\ n = 10
                   => /\ result.response_times.p95 = 10
                      /\ result.response_times.p99 = 10

\* A summary over exactly the ten durations 0.1 .. 1.0.
C15_Witness ==
    /\ SummaryAnswered
    /\ "response_times" \in DOMAIN response[1].result
    /\ response[1].result.total_requests = 10
    /\ {request_metrics[i].duration : i \in Window(response[1].hours)} = 1..10
    /\ response[1].result.response_times.p95 = 10

-----------------------------------------------------------------------------
(* The health and metrics routes: src/api/v1/health_routes.py *)

\* what the client receives: the HTTP status and the JSON body
Response(status_code, body) == [status_code |-> status_code, body |-> body]

\* A faulty GET /health whose evaluator lets its exception out, so that the
\* route's own except branch answers.
HealthCheckReportsUnhealthy(failed) ==
    Response(200, IF failed
                  THEN [status |-> "unhealthy", timestamp |-> now,
                        error |-> "Health check failed"]
                  ELSE GetHealthStatus(FALSE))

\* GET /health.  get_health_status answers its own exceptions, so the except
\* branch of the route is never taken.
HealthCheck(failed) == Response(200, GetHealthStatus(failed))

\* A faulty GET /health/ready that looks at the database only.
ReadinessCheckDatabaseOnly(db_ok, failed) ==
    IF ~db_ok THEN Response(503, [detail |-> "Service not ready"])
    ELSE Response(200, [status |-> "ready", timestamp |-> now])

\* GET /health/ready.  db_ok: db.execute(text("SELECT 1")) returned.
ReadinessCheck(db_ok, failed) ==
    IF ~db_ok THEN Response(503, [detail |-> "Service not ready"])
    ELSE IF GetHealthStatus(failed).status = "unhealthy"
    THEN Response(503, [detail |-> "System is unhealthy"])
    ELSE Response(200, [status |-> "ready", timestamp |-> now])

\* GET /metrics?hours=...; get_metrics_summary answers its own exceptions
GetMetrics(hours, failed) == Response(200, GetMetricsSummary(hours, failed))

\* db_manager.health_check() answers "healthy" or "unhealthy", or raises
DatabaseHealth == {"healthy", "unhealthy", "raises"}

\* sum(1 for m in recent_requests if m.status_code >= 500)
CountServerErrors(ms) == Cardinality({i \in 1..Len(ms) : ms[i].status_code >= 500})

\* GET /health/detailed: the components "database", "system_metrics" and
\* "application", each inside a try block of its own.  failed: the try body
\* of get_health_status raised (its answer then has no "metrics", and the
\* lookup raises KeyError); app_failed: the application block raised.
DetailedHealthCheck(db, failed, app_failed) ==
    LET database ==
            IF db = "raises"
            THEN [status |-> "unhealthy", message |-> "Database health check failed"]
            ELSE [status |-> db]
        after_database == IF db = "healthy" THEN "healthy" ELSE "unhealthy"
        system_health == GetHealthStatus(failed)
        system_raised == "metrics" \notin DOMAIN system_health
        system_component ==
            IF system_raised
            THEN [status |-> "unknown", message |-> "Failed to get system metrics"]
            ELSE [status |-> system_health.status,
                  metrics |-> system_health.metrics,
                  issues |-> system_health.issues]
        after_system ==
            IF ~system_raised /\ system_health.status # "healthy"
            THEN "degraded" ELSE after_database
        recent_requests == RecentRequests(request_metrics, now, FiveMinutes)
        error_count == CountServerErrors(recent_requests)
        application ==
            IF app_failed
            THEN [status |-> "unknown",
                  message |-> "Failed to analyze application health"]
            ELSE IF recent_requests # << >>
            THEN [status |-> IF 20 * error_count < Len(recent_requests)
                             THEN "healthy" ELSE "degraded",
                  error_rate |-> Ratio(error_count, Len(recent_requests)),
                  total_requests |-> Len(recent_requests),
                  error_count |-> error_count]
            ELSE [status |-> "healthy", message |-> "No recent requests to analyze"]
    IN  Response(200,
            [timestamp |-> now,
             overall_status |-> after_system,
             components |-> [database |-> database,
                             system_metrics |-> system_component,
                             application |-> application]])

-----------------------------------------------------------------------------
(* Specification SpecRoutes: calls of the health and metrics routes on a   *)
(* store, as records and snapshots arrive and time passes.                 *)

MaxRouteRequests == 1
MaxRouteSnapshots == 1

RouteClock == {0, 301}
RouteHours == {1, 24}

InitRoutes ==
    /\ now = 0
    /\ StoreIs(NewStore(DefaultMaxHistory))
    /\ NoHealth /\ NoAlerts /\ NoThreads /\ NoRequests /\ NoOther

RouteFrame == UNCHANGED <<healthVars, alertVars, concVars, mwVars, readVars, taskVars, dbVars>>

RouteRecordRequest ==
    /\ Len(submitted) < MaxRouteRequests
    /\ \E status \in Statuses :
           StoreRecord(RequestMetrics(now, "GET", "/a", status, 1, None, None))
    /\ response' = None
    /\ UNCHANGED now
    /\ RouteFrame

RouteRecordSystemMetrics ==
    /\ Len(system_metrics) < MaxRouteSnapshots
    /\ \E cpu \in CpuSamples, mem \in MemorySamples :
           StoreSnapshot(Some(Sample(cpu, mem, 0)))
    /\ response' = None
    /\ UNCHANGED now
    /\ RouteFrame

RouteTick ==
    /\ \E t \in RouteClock : t > now /\ now' = t
    /\ response' = None
    /\ UNCHANGED storeVars
    /\ RouteFrame

\* what the model keeps of a route call: the route, what went wrong inside,
\* and what the client received
Answer(call, failed, answer) ==
    Some([call |-> call, failed |-> failed,
          status_code |-> answer.status_code, body |-> answer.body])

RouteHealth ==
    /\ \E failed \in BOOLEAN :
           response' = Answer("health_check", failed, HealthCheck(failed))
    /\ UNCHANGED <<now, storeVars>>
    /\ RouteFrame

RouteDetailed ==
    /\ \E db \in DatabaseHealth, failed \in BOOLEAN, app_failed \in BOOLEAN :
           response' = Answer("detailed_health_check",
                              [db |-> db, system |-> failed, application |-> app_failed],
                              DetailedHealthCheck(db, failed, app_failed))
    /\ UNCHANGED <<now, storeVars>>
    /\ RouteFrame

RouteReady ==
    /\ \E db_ok \in BOOLEAN, failed \in BOOLEAN :
           response' = Answer("readiness_check",
                              [database |-> ~db_ok, system |-> failed,
                               health |-> GetHealthStatus(failed)],
                              ReadinessCheck(db_ok, failed))
    /\ UNCHANGED <<now, storeVars>>
    /\ RouteFrame

RouteMetrics ==
    /\ \E hours \in RouteHours, failed \in BOOLEAN :
           response' = Answer("get_metrics", failed, GetMetrics(hours, failed))
    /\ UNCHANGED <<now, storeVars>>
    /\ RouteFrame

NextRoutes ==
    \/ RouteRecordRequest
    \/ RouteRecordSystemMetrics
    \/ RouteTick
    \/ RouteHealth
    \/ RouteDetailed
    \/ RouteReady
    \/ RouteMetrics

SpecRoutes == InitRoutes /\ [][NextRoutes]_vars

Answered(call) == response # None /\ response[1].call = call

\* C16: GET /health/ready answers 503 whenever the database probe failed or
\* the health evaluator reported "unhealthy", and otherwise 200 with status
\* "ready"; so 200 is answered only when the probe succeeded and the reported
\* status is not "unhealthy".
C16_ReadyOnlyWhenNotUnhealthy ==
    Answered("readiness_check") =>
        LET r == response[1]
            refused == r.failed.database \/ r.failed.health.status = "unhealthy"
        IN  /\ refused => r.status_code = 503
            /\ ~refused => r.status_code = 200 /\ r.body.status = "ready"
            /\ r.status_code \in {200, 503}

\* The database probe succeeded, the store makes the evaluator report
\* "unhealthy" (a snapshot and a trailing error rate above 10%), and the
\* answer is 503.
C16_Witness ==
    /\ Answered("readiness_check")
    /\ ~response[1].failed.database
    /\ ~response[1].failed.system
    /\ Len(system_metrics) > 0
    /\ ErrorRateHigh
    /\ response[1].status_code = 503

\* the fields of a summary that get_metrics_summary computed
SummaryFields ==
    {"period_hours", "total_requests", "error_rate", "response_times",
     "top_endpoints", "error_breakdown"}

\* the route's answer to a call in which an inner computation failed is a
\* normal one whose affected part is marked "unknown"
MarkedUnknown(r) ==
    /\ r.status_code = 200
    /\ CASE r.call = "health_check" -> r.body.status = "unknown"
         [] r.call = "detailed_health_check" ->
                /\ r.failed.system
                       => r.body.components.system_metrics.status = "unknown"
                /\ r.failed.application
                       => r.body.components.application.status = "unknown"
                /\ ~r.failed.application
                       => r.body.components.application.status \in {"healthy", "degraded"}
                /\ r.body.components.database.status \in {"healthy", "unhealthy"}
                /\ r.body.overall_status \in {"healthy", "degraded", "unhealthy"}
         [] OTHER -> FALSE

\* an inner computation of the call failed
InnerFailure(r) ==
    IF r.call = "detailed_health_check"
    THEN r.failed.system \/ r.failed.application
    ELSE r.failed

DegradingRoutes == {"health_check", "detailed_health_check", "get_metrics"}

\* C18 (as claimed): when a computation inside the health evaluator or the
\* aggregator fails, GET /health, /health/detailed and /metrics still answer
\* 200 with the affected fields marked "unknown" or with a partial body that
\* keeps fields the failure did not affect.
C18_FailureLeavesPartialResponse ==
    (response # None /\ response[1].call \in DegradingRoutes
        /\ InnerFailure(response[1]))
    => \/ MarkedUnknown(response[1])
       \/ /\ response[1].call = "get_metrics"
          /\ response[1].status_code = 200
          /\ DOMAIN response[1].body \cap SummaryFields # {}

\* C18 (amended): when such a computation fails, the three routes still
\* answer 200: GET /health with status "unknown", GET /health/detailed with
\* the failed component marked "unknown" and its other components and
\* overall_status in place, and GET /metrics with a body that holds the error
\* text alone, none of the fields of the summary.
C18_FailureLeavesNormalResponse ==
    (response # None /\ response[1].call \in DegradingRoutes
        /\ InnerFailure(response[1]))
    => \/ MarkedUnknown(response[1])
       \/ /\ response[1].call = "get_metrics"
          /\ response[1].status_code = 200
          /\ DOMAIN response[1].body = {"error"}

\* GET /health/detailed answered while get_health_status had failed inside:
\* the system_metrics component is "unknown", the database component stands.
C18_Witness ==
    /\ Answered("detailed_health_check")
    /\ response[1].failed.system
    /\ ~response[1].failed.application
    /\ response[1].status_code = 200
    /\ response[1].body.components.system_metrics.status = "unknown"
    /\ response[1].body.components.database.status = "healthy"
    /\ Len(request_metrics) > 0

-----------------------------------------------------------------------------
(* Absent resource readings (SpecTask) and the frame of _trigger_alert     *)
(* (SpecCooldown)                                                          *)

ResourceAlerts == {"high_cpu_usage", "high_memory_usage", "slow_response_time"}

\* C19: while no SystemMetrics snapshot has been recorded, get_health_status
\* reports cpu_percent, memory_percent and avg_response_time as None, not as
\* 0, and no check_alerts run has handed a CPU, memory or response-time alert
\* to the logger.
C19_AbsentReadingsRaiseNoAlert ==
    Len(system_metrics) = 0 =>
        /\ LET metrics == GetHealthStatus(FALSE).metrics
           IN  /\ metrics.cpu_percent = None
               /\ metrics.memory_percent = None
               /\ metrics.avg_response_time = None
        /\ \A i \in 1..Len(alerts) : alerts[i].alert_type \notin ResourceAlerts

\* check_alerts has run twice without any snapshot (the sampling failed in
\* both iterations), on a store whose error rate made the error-rate alert
\* fire.
C19_Witness ==
    /\ Len(system_metrics) = 0
    /\ task.pc = "sleep"
    /\ task.iterations = 2
    /\ \E i \in 1..Len(alerts) : alerts[i].alert_type = "high_error_rate"

\* last_alert and (now - last_alert) < self.alert_cooldown, read off the table
InCooldown(alert_type) ==
    /\ alert_type \in DOMAIN alert_history
    /\ now - alert_history[alert_type] < AlertCooldown

\* the two cooldown tables agree on every key but alert_type
SameElsewhere(before, after, alert_type) ==
    /\ DOMAIN after \ {alert_type} = DOMAIN before \ {alert_type}
    /\ \A k \in DOMAIN before \ {alert_type} : after[k] = before[k]

\* C20: a _trigger_alert(T) call made in any reachable state is suppressed
\* exactly when T itself is inside its cooldown, and then leaves the whole
\* of alert_history as it was; otherwise it fires and sets alert_history[T] to
\* the current time, every other key keeping its value.  Every step that
\* changes alert_history changes it at the key of the alert just fired only.
C20_TriggerTouchesOwnKeyOnly ==
    /\ [](\A alert_type \in AlertTypes :
              LET after == TriggerAlert(AlertState(alert_history, alerts, FALSE),
                                        alert_type, SeverityOf(alert_type))
              IN  /\ InCooldown(alert_type)
                      => /\ after.alert_history = alert_history
                         /\ after.alerts = alerts
                  /\ ~InCooldown(alert_type)
                      => /\ Len(after.alerts) = Len(alerts) + 1
                         /\ after.alert_history[alert_type] = now
                         /\ SameElsewhere(alert_history, after.alert_history,
                                          alert_type))
    /\ [][alert_history' # alert_history
              => /\ Len(alerts') = Len(alerts) + 1
                 /\ alert_history'[alerts'[Len(alerts')].alert_type] = now
                 /\ SameElsewhere(alert_history, alert_history',
                                  alerts'[Len(alerts')].alert_type)]_vars

\* One type fired while another was inside its cooldown, the other's entry
\* still holds the time it fired, and both are inside their cooldown now.
C20_Witness ==
    \E a, b \in AlertTypes :
        /\ a # b
        /\ InCooldown(a) /\ InCooldown(b)
        /\ alert_history[a] < alert_history[b]
        /\ alert_history[b] < now

-----------------------------------------------------------------------------
(* Specification SpecTally: record_request called directly with records    *)
(* that carry a user id and an error code, among them the id 0 and the     *)
(* empty code.  A second passes between two calls.                         *)

MaxTallyRequests == 2

TallyMethods == {"GET", "POST"}
TallyStatuses == {399, 400}
TallyUserIds == {None, Some(0), Some(1)}
TallyErrorCodes == {None, Some(""), Some("E")}

InitTally ==
    /\ now = 0
    /\ StoreIs(NewStore(DefaultMaxHistory))
    /\ NoHealth /\ NoAlerts /\ NoThreads /\ NoRequests /\ NoOther

TallyRecordRequest ==
    /\ Len(submitted) < MaxTallyRequests
    /\ \E method \in TallyMethods, status \in TallyStatuses,
          user \in TallyUserIds, code \in TallyErrorCodes :
          StoreRecord(RequestMetrics(now, method, "/a", status, 1, user, code))
    /\ now' = now + 1
    /\ UNCHANGED <<healthVars, alertVars, concVars, mwVars, otherVars>>

NextTally == TallyRecordRequest

SpecTally == InitTally /\ [][NextTally]_vars

\* the record a record_request step was called with
Recorded == submitted'[Len(submitted')]

\* user_activity[u] of the defaultdict, as read without creating the entry
UserStat(ua, u) == DefaultGet(ua, u, NewUserStat)

\* the step has counted the record m for the user u and for no one else
CountedFor(u, m) ==
    /\ DOMAIN user_activity' = DOMAIN user_activity \cup {u}
    /\ user_activity'[u].request_count = UserStat(user_activity, u).request_count + 1
    /\ user_activity'[u].last_activity = Some(m.timestamp)
    /\ user_activity'[u].error_count =
           UserStat(user_activity, u).error_count
               + (IF m.status_code >= 400 THEN 1 ELSE 0)
    /\ \A v \in DOMAIN user_activity \ {u} : user_activity'[v] = user_activity[v]

\* the submitted records that carry the user id u
SubmittedBy(u) == {i \in 1..Len(submitted) : submitted[i].user_id = Some(u)}

\* C21 as stated, over the records submitted so far: every user id that some
\* record carried, whatever the id, has been counted once per record, with
\* the failed ones in error_count and the latest timestamp in last_activity.
C21_EveryPresentIdCounted ==
    \A i \in 1..Len(submitted) :
        submitted[i].user_id # None =>
            LET u == submitted[i].user_id[1]
                mine == SubmittedBy(u)
                stat == UserStat(user_activity, u)
            IN  /\ stat.request_count = Cardinality(mine)
                /\ stat.error_count =
                       Cardinality({j \in mine : submitted[j].status_code >= 400})
                /\ stat.last_activity =
                       Some(submitted[CHOOSE j \in mine : \A k \in mine : k <= j].timestamp)

\* C21: every record_request whose record carries a user id other than 0
\* raises that user's request_count by one, sets last_activity to the record's
\* timestamp and raises error_count by one iff status_code >= 400, leaving
\* every other user's entry alone; a record without a user id, or with the
\* id 0, leaves user_activity unchanged.
C21_NonZeroIdCounted ==
    [][Len(submitted') = Len(submitted) + 1 =>
          IF Recorded.user_id \notin {None, Some(0)}
          THEN CountedFor(Recorded.user_id[1], Recorded)
          ELSE user_activity' = user_activity]_vars

\* A record of user 0 was followed by a failed request of user 1: only user 1
\* has an entry.
C21_Witness ==
    /\ Len(submitted) = 2
    /\ submitted[1].user_id = Some(0)
    /\ submitted[2].user_id = Some(1)
    /\ submitted[2].status_code = 400
    /\ DOMAIN user_activity = {1}
    /\ user_activity[1] =
           [request_count |-> 1, last_activity |-> Some(1), error_count |-> 1]

\* the error codes that submitted records carried
SubmittedCodes ==
    {submitted[i].error_code[1] :
         i \in {j \in 1..Len(submitted) : submitted[j].error_code # None}}

\* the failed records submitted with the error code c
FailedWith(c) ==
    {i \in 1..Len(submitted) :
         submitted[i].status_code >= 400 /\ submitted[i].error_code = Some(c)}

\* every endpoint's error_count is the number of its failed records
EndpointErrorsMatch ==
    \A k \in SubmittedKeys :
        endpoint_stats[k].error_count =
            Cardinality({i \in SubmittedFor(k) : submitted[i].status_code >= 400})

\* C28 as stated: for every error code c that a record carried, the empty
\* code included, error_counts[c] is the number of failed records submitted
\* with c, and every endpoint's error_count is the number of its failed records.
C28_EveryCodeTallied ==
    /\ \A c \in SubmittedCodes :
           DefaultGet(error_counts, c, 0) = Cardinality(FailedWith(c))
    /\ EndpointErrorsMatch

\* C28: for every non-empty error code c, error_counts[c] is the number of
\* records ever submitted with status_code >= 400 and error_code = c (the
\* empty code is never tallied, and no code has an entry before its first
\* failed record); every endpoint's error_count is the number of its failed
\* records; a record with status_code < 400 changes neither.
C28_NonEmptyCodeTallied ==
    /\ [](/\ DOMAIN error_counts = {c \in SubmittedCodes \ {""} : FailedWith(c) # {}}
          /\ \A c \in DOMAIN error_counts :
                 error_counts[c] = Cardinality(FailedWith(c))
          /\ EndpointErrorsMatch)
    /\ [][Len(submitted') = Len(submitted) + 1 /\ Recorded.status_code < 400 =>
              /\ error_counts' = error_counts
              /\ \A k \in DOMAIN endpoint_stats' :
                     endpoint_stats'[k].error_count =
                         DefaultGet(endpoint_stats, k, NewEndpointStat).error_count]_vars

\* Two failed requests of one endpoint, the first with the empty code and the
\* second with the code "E": only "E" is tallied.
C28_Witness ==
    /\ Len(submitted) = 2
    /\ submitted[1].status_code = 400 /\ submitted[1].error_code = Some("")
    /\ submitted[2].status_code = 400 /\ submitted[2].error_code = Some("E")
    /\ error_counts = DictSet(EmptyDict, "E", 1)
    /\ endpoint_stats["GET /a"].error_count = 2

-----------------------------------------------------------------------------
(* Specification SpecCapacity: the threads of SpecReaders on a collector   *)
(* built with a small max_history, whose background task has run 999       *)
(* times: a thread calling record_request and a thread calling the three   *)
(* readers, record_system_metrics among them.                              *)

CapHistories == {1, 2}

\* the snapshot the background task took i intervals before the start
PastSnapshot(i) ==
    SystemMetrics(0 - i * SleepInterval, 0, 0, 0, 0, 0, 0, 0, Ratio(0, 1))

\* the buffer after n runs of the task, the oldest snapshot first
PastSnapshots(n) == [i \in 1..n |-> PastSnapshot(n + 1 - i)]

InitCapacity ==
    /\ now = 0
    /\ \E cap \in CapHistories, k \in 0..MaxPreloaded :
           StoreIs([IngestAll(NewStore(cap), Repeat(ProbeRecord, k)) EXCEPT
                        !.system_metrics = PastSnapshots(SystemHistoryCap - 1)])
    /\ NoHealth /\ NoAlerts /\ NoRequests /\ NoTask /\ NoResponse /\ NoDb
    /\ lock = None
    /\ threads = [t \in {Writer} |-> [pc |-> "idle", done |-> 0, count |-> 0]]
    /\ reader = Idle(0)

SpecCapacity == InitCapacity /\ [][NextReaders]_vars

\* q after an append of x to a deque of the capacity cap >= 1
AppendedEvictingOldest(q, x, cap) ==
    IF Len(q) = cap THEN Append(Tail(q), x) ELSE Append(q, x)

\* C27: the request buffer never holds more than max_history records and the
\* snapshot buffer never more than 1000 snapshots, whatever max_history is,
\* with record_request and record_system_metrics running in two threads; an
\* append to a full buffer drops the oldest entry and nothing else, an append
\* to a buffer that is not full drops nothing.
C27_BuffersStayWithinCapacity ==
    /\ [](/\ Len(request_metrics) <= max_history
          /\ Len(system_metrics) <= SystemHistoryCap)
    /\ [][Len(submitted') = Len(submitted) + 1 =>
              request_metrics' =
                  AppendedEvictingOldest(request_metrics, Recorded, max_history)]_vars
    /\ [][reader.pc = "append" /\ reader'.pc # "append" =>
              system_metrics' =
                  AppendedEvictingOldest(system_metrics, reader.snapshot[1],
                                         SystemHistoryCap)]_vars
    /\ [][reader.pc # "append" => system_metrics' = system_metrics]_vars
    /\ [][Len(submitted') = Len(submitted) => request_metrics' = request_metrics]_vars

\* Both buffers are full and each has dropped its oldest entry: the snapshot
\* buffer holds 1000 snapshots although max_history is 1.
C27_Witness ==
    /\ max_history = 1
    /\ Len(submitted) > 1
    /\ request_metrics = <<submitted[Len(submitted)]>>
    /\ Len(system_metrics) = SystemHistoryCap
    /\ system_metrics[1] = PastSnapshot(SystemHistoryCap - 2)
    /\ system_metrics[SystemHistoryCap].timestamp = now
    /\ system_metrics[SystemHistoryCap - 1].timestamp = now

-----------------------------------------------------------------------------
(* GET /health/detailed: overall_status against the components (SpecRoutes) *)

\* C29: in every answer of GET /health/detailed whose database component is
\* not "healthy", overall_status is "unhealthy", whatever the status of the
\* system-metrics component evaluated after it.
C29_UnhealthyDatabaseIsUnhealthyOverall ==
    (Answered("detailed_health_check")
        /\ response[1].body.components.database.status # "healthy")
    => response[1].body.overall_status = "unhealthy"

-----------------------------------------------------------------------------
(* The alert routes of the dashboard (src/api/v1/dashboard_routes.py)      *)

\* alert_manager.alert_thresholds
AlertThresholds ==
    [error_rate |-> ErrorRateThreshold, response_time_p95 |-> ResponseTimeThreshold,
     cpu_percent |-> CpuThreshold, memory_percent |-> MemoryThreshold,
     disk_percent |-> DiskThreshold]

\* a float percentage as a ratio
AsRatio(x) == Ratio(x, 1)

\* an entry of current_alerts
CurrentAlert(type, severity, current_value, threshold) ==
    [type |-> type, severity |-> severity, current_value |-> current_value,
     threshold |-> threshold]

\* dashboard_alerts, "Check current conditions against thresholds": the four
\* tests on the health status, each appending its entry
CurrentAlerts(health_status) ==
    LET thresholds == AlertThresholds
        error_rate == health_status.metrics.error_rate
        avg_response_time == health_status.metrics.avg_response_time
        cpu_percent == health_status.metrics.cpu_percent
        memory_percent == health_status.metrics.memory_percent
    IN  (IF RatioGT(error_rate, thresholds.error_rate)
         THEN <<CurrentAlert("high_error_rate", "critical", error_rate,
                             thresholds.error_rate)>>
         ELSE << >>)
        \o (IF TruthyRatio(avg_response_time)
               /\ RatioGT(avg_response_time[1], thresholds.response_time_p95)
            THEN <<CurrentAlert("slow_response_time", "warning", avg_response_time[1],
                                thresholds.response_time_p95)>>
            ELSE << >>)
        \o (IF TruthyInt(cpu_percent) /\ cpu_percent[1] > thresholds.cpu_percent
            THEN <<CurrentAlert("high_cpu_usage", "warning", AsRatio(cpu_percent[1]),
                                AsRatio(thresholds.cpu_percent))>>
            ELSE << >>)
        \o (IF TruthyInt(memory_percent)
               /\ memory_percent[1] > thresholds.memory_percent
            THEN <<CurrentAlert("high_memory_usage", "critical",
                                AsRatio(memory_percent[1]),
                                AsRatio(thresholds.memory_percent))>>
            ELSE << >>)

\* sum(1 for a in current_alerts if a["severity"] == severity)
CountSeverity(current_alerts, severity) ==
    Cardinality({i \in 1..Len(current_alerts) :
                     current_alerts[i].severity = severity})

\* what Depends(validate_bearer_token) answers for a request without a valid
\* token; the route's handler is not run
AuthenticationError == Response(401, [detail |-> "Authentication failed"])

\* GET /dashboard/alerts.  failed: the try body of get_health_status raised, so
\* that its answer has no "metrics" and the first lookup raises KeyError.
DashboardAlerts(authenticated, failed) ==
    IF ~authenticated THEN AuthenticationError
    ELSE LET health_status == GetHealthStatus(failed)
         IN  IF "metrics" \notin DOMAIN health_status
             THEN Response(500, [detail |-> "Failed to retrieve alert data"])
             ELSE LET current_alerts == CurrentAlerts(health_status)
                  IN  Response(200,
                          [timestamp |-> now,
                           current_alerts |-> current_alerts,
                           alert_history |-> << >>,
                           thresholds |-> AlertThresholds,
                           alert_summary |->
                               [total_active |-> Len(current_alerts),
                                critical_count |->
                                    CountSeverity(current_alerts, "critical"),
                                warning_count |->
                                    CountSeverity(current_alerts, "warning")]])

\* A faulty acknowledge_alert that clears the cooldown of the acknowledged type.
AcknowledgedHistoryClearsCooldown(ah, alert_type) ==
    [x \in (DOMAIN ah) \ {alert_type} |-> ah[x]]

\* alert_manager.alert_history after acknowledge_alert: the handler logs the
\* acknowledgment and writes nothing
AcknowledgedHistory(ah, alert_type) == ah

\* POST /dashboard/alerts/acknowledge
AcknowledgeAlert(authenticated, alert_type, username) ==
    IF ~authenticated THEN AuthenticationError
    ELSE Response(200, [status |-> "acknowledged", alert_type |-> alert_type,
                        acknowledged_by |-> username, timestamp |-> now])

\* The RequestMetrics that MonitoringMiddleware builds for a request once the
\* application has answered it (no user id, no error code).
MiddlewareRecord(method, path, status_code) ==
    RequestMetrics(now, method, path, status_code, 1, None, None)

AlertsPath == "/api/v1/dashboard/alerts"

AcknowledgePath == "/api/v1/dashboard/alerts/acknowledge"

-----------------------------------------------------------------------------
(* Specification SpecDashboard: the two alert routes, called through the   *)
(* middleware, next to the record_system_metrics and check_alerts calls of  *)
(* the background task.  The store starts empty or with the records of     *)
(* eighteen successful requests, preceded or not by a failed one.  No time *)
(* passes between the calls.                                               *)

MaxDashSnapshots == 1
MaxDashCalls == 1

\* with one failed request more, one request short of an error rate of 5%
DashPreloaded == ErrorRateThreshold.den - 2

\* the requests served before the first dashboard request
DashServed ==
    {<< >>, Repeat(ProbeRecord, DashPreloaded),
     <<FailedRequest>> \o Repeat(ProbeRecord, DashPreloaded)}

DashSamples == {Sample(80, 85, 0), Sample(81, 86, 0)}

AcknowledgedTypes == {"high_error_rate", "test_alert"}

DashPaths == {AlertsPath, AcknowledgePath}

\* the dashboard requests the middleware has recorded
DashCalls == Cardinality({i \in 1..Len(submitted) : submitted[i].path \in DashPaths})

InitDashboard ==
    /\ now = 0
    /\ \E ms \in DashServed : StoreIs(IngestAll(NewStore(DefaultMaxHistory), ms))
    /\ NoHealth /\ NoThreads /\ NoRequests /\ NoReader /\ NoTask /\ NoResponse /\ NoDb
    /\ alert_history = EmptyDict
    /\ alerts = << >>
    /\ alert_log_enabled \in BOOLEAN
    /\ last_check = None

DashFrame == UNCHANGED <<healthVars, concVars, mwVars, readVars, taskVars, dbVars>>

DashRecordSystemMetrics ==
    /\ Len(system_metrics) < MaxDashSnapshots
    /\ \E sample \in DashSamples : StoreSnapshot(Some(sample))
    /\ last_check' = None
    /\ response' = None
    /\ UNCHANGED <<now, alert_history, alerts, alert_log_enabled>>
    /\ DashFrame

\* check_alerts (the background task's call)
DashCheckAlerts ==
    /\ last_check = None
    /\ LET run == CheckAlertsRun(FALSE)
       IN  /\ alert_history' = run.state.alert_history
           /\ alerts' = run.state.alerts
           /\ last_check' = Some([evaluated |-> run.evaluated,
                                  failed |-> run.failed,
                                  health_failed |-> FALSE,
                                  alerts_before |-> Len(alerts),
                                  history_before |-> alert_history])
    /\ response' = None
    /\ UNCHANGED <<now, storeVars, alert_log_enabled>>
    /\ DashFrame

\* what the model keeps of a dashboard request: the answer, and the monitoring
\* state and the alert list of GET /dashboard/alerts as they were when the
\* request arrived
DashAnswer(call, answer) ==
    Some([call |-> call, status_code |-> answer.status_code, body |-> answer.body,
          before |-> [store |-> Store, alert_history |-> alert_history,
                      alerts |-> alerts,
                      current_alerts |-> CurrentAlerts(GetHealthStatus(FALSE))]])

\* GET /dashboard/alerts, then the middleware's record of the request
DashAlerts ==
    /\ DashCalls < MaxDashCalls
    /\ \E authenticated \in BOOLEAN, failed \in BOOLEAN :
           LET answer == DashboardAlerts(authenticated, failed)
           IN  /\ response' = DashAnswer("dashboard_alerts", answer)
               /\ StoreRecord(MiddlewareRecord("GET", AlertsPath, answer.status_code))
    /\ last_check' = None
    /\ UNCHANGED <<now, alert_history, alerts, alert_log_enabled>>
    /\ DashFrame

\* POST /dashboard/alerts/acknowledge, then the middleware's record of the
\* request
DashAcknowledge ==
    /\ DashCalls < MaxDashCalls
    /\ \E authenticated \in BOOLEAN, alert_type \in AcknowledgedTypes :
           LET answer == AcknowledgeAlert(authenticated, alert_type, "u")
           IN  /\ response' = DashAnswer("acknowledge_alert", answer)
               /\ alert_history' =
                      IF authenticated
                      THEN AcknowledgedHistory(alert_history, alert_type)
                      ELSE alert_history
               /\ StoreRecord(MiddlewareRecord("POST", AcknowledgePath,
                                               answer.status_code))
    /\ last_check' = None
    /\ UNCHANGED <<now, alerts, alert_log_enabled>>
    /\ DashFrame

NextDashboard ==
    \/ DashRecordSystemMetrics
    \/ DashCheckAlerts
    \/ DashAlerts
    \/ DashAcknowledge

SpecDashboard == InitDashboard /\ [][NextDashboard]_vars

\* what GET /dashboard/alerts would list now
ListedNow == CurrentAlerts(GetHealthStatus(FALSE))

\* the entries of a current_alerts list that do not come from the error rate
ResourceEntries(current_alerts) ==
    SelectSeq(current_alerts, LAMBDA a : a.type # "high_error_rate")

ListsErrorRate(current_alerts) ==
    \E i \in 1..Len(current_alerts) : current_alerts[i].type = "high_error_rate"

\* C22 as stated: once an acknowledgment has been answered, the store and the
\* cooldown table are what they were when the request arrived, and
\* GET /dashboard/alerts lists the alerts it would have listed then.
C22_AcknowledgeChangesNothing ==
    Answered("acknowledge_alert") =>
        /\ Store = response[1].before.store
        /\ alert_history = response[1].before.alert_history
        /\ ListedNow = response[1].before.current_alerts

\* C22: once an acknowledgment has been answered, the cooldown table, the
\* alerts raised, the snapshot buffer and the counters of every other
\* endpoint are what they were when the request arrived; the store has
\* gained exactly the middleware's record of the acknowledgment request.
\* GET /dashboard/alerts then lists the same CPU, memory and latency alerts as
\* before, and after an acknowledgment answered 200 it lists the error-rate
\* alert only if it listed it before.
C22_AcknowledgeAddsOwnRecordOnly ==
    Answered("acknowledge_alert") =>
        LET before == response[1].before
            own == MiddlewareRecord("POST", AcknowledgePath, response[1].status_code)
        IN  /\ alert_history = before.alert_history
            /\ alerts = before.alerts
            /\ system_metrics = before.store.system_metrics
            /\ max_history = before.store.max_history
            /\ request_metrics = Append(before.store.request_metrics, own)
            /\ \A k \in DOMAIN before.store.endpoint_stats :
                   k # EndpointKey(own) =>
                       endpoint_stats[k] = before.store.endpoint_stats[k]
            /\ error_counts = before.store.error_counts
            /\ user_activity = before.store.user_activity
            /\ ResourceEntries(ListedNow) = ResourceEntries(before.current_alerts)
            /\ (response[1].status_code = 200 /\ ListsErrorRate(ListedNow))
                   => ListsErrorRate(before.current_alerts)

\* An acknowledgment of the error-rate alert was answered 200 while a
\* check_alerts run had put the alert in its cooldown: the cooldown entry and
\* the CPU and memory alerts stand, and the record of the request itself has
\* brought the error rate down to the threshold, so the alert is no longer
\* listed.
C22_Witness ==
    /\ Answered("acknowledge_alert")
    /\ response[1].status_code = 200
    /\ response[1].body.alert_type = "high_error_rate"
    /\ "high_error_rate" \in DOMAIN alert_history
    /\ ListsErrorRate(response[1].before.current_alerts)
    /\ ~ListsErrorRate(ListedNow)
    /\ Len(ResourceEntries(ListedNow)) = 2

\* the alert types, with their severities, for which the check_alerts run on
\* the health status h called _trigger_alert: the tests it reached that held
TriggerCalls(h, evaluated) ==
    LET cs == AlertConditions(h)
    IN  {<<cs[i][2], cs[i][3]>> :
             i \in {j \in 1..Len(cs) : cs[j][1] /\ cs[j][2] \in evaluated}}

\* C30: after a check_alerts run on a health status that contains metrics, the
\* alert types that GET /dashboard/alerts lists for that health status are,
\* with the same severities, the alert types for which the run called
\* _trigger_alert.
C30_DashboardListsWhatCheckAlertsTriggers ==
    last_check # None =>
        LET h == GetHealthStatus(FALSE)
            current_alerts == CurrentAlerts(h)
        IN  {<<current_alerts[i].type, current_alerts[i].severity>> :
                 i \in 1..Len(current_alerts)}
                = TriggerCalls(h, last_check[1].evaluated)

(***************************************************************************)
(* The database tables and the routes over them.  A row is a record; a     *)
(* table is the set of its rows, the primary key id being unique in it.    *)
(* These handlers neither read nor write the monitoring store, which is    *)
(* left as it is here.                                                     *)
(***************************************************************************)
DbFrame == UNCHANGED <<now, storeVars, healthVars, alertVars, concVars, mwVars,
                       readVars, taskVars>>

User(id, username, email) ==
    [id |-> id, username |-> username, email |-> email, is_active |-> TRUE]

Kitchen(id, owner_id, name, description) ==
    [id |-> id, owner_id |-> owner_id, name |-> name, description |-> description]

\* Query.first(): the row found, if any
First(rows) == IF rows = {} THEN None ELSE Some(CHOOSE r \in rows : TRUE)

\* for field, value in update_data.items(): setattr(row, field, value)
SetAttrs(row, update_data) ==
    [f \in DOMAIN row |-> IF f \in DOMAIN update_data THEN update_data[f] ELSE row[f]]

\* get_current_user: the token is a signed one whose "sub" is a username, or
\* it is missing or invalid (None)
GetCurrentUser(us, token) ==
    IF token = None
    THEN [user |-> None, status_code |-> 401]
    ELSE LET user == First({u \in us : u.username = token[1]})
         IN  IF user = None THEN [user |-> None, status_code |-> 404]
             ELSE IF ~user[1].is_active THEN [user |-> None, status_code |-> 401]
             ELSE [user |-> user, status_code |-> 200]

\* a kitchen route's answer: the row it serialises, if any, and the detail
KitchenAnswer(status_code, kitchen, detail) ==
    [status_code |-> status_code, kitchen |-> kitchen, detail |-> detail]

KitchenNotFound == KitchenAnswer(404, None, "Kitchen not found")

\* the query of the three kitchen routes that ignores the owner
KitchenOfAnyOwner(ks, kitchen_id, owner_id) == {k \in ks : k.id = kitchen_id}

\* db.query(Kitchen).filter(Kitchen.id == kitchen_id,
\*                          Kitchen.owner_id == current_user.id)
OwnedKitchen(ks, kitchen_id, owner_id) ==
    {k \in ks : k.id = kitchen_id /\ k.owner_id = owner_id}

\* each handler gives its answer and the table it leaves
get_kitchen(ks, kitchen_id, current_user) ==
    LET kitchen == First(OwnedKitchen(ks, kitchen_id, current_user.id))
    IN  IF kitchen = None
        THEN [answer |-> KitchenNotFound, kitchens |-> ks]
        ELSE [answer |-> KitchenAnswer(200, kitchen, ""), kitchens |-> ks]

update_kitchen(ks, kitchen_id, update_data, current_user) ==
    LET kitchen == First(OwnedKitchen(ks, kitchen_id, current_user.id))
    IN  IF kitchen = None
        THEN [answer |-> KitchenNotFound, kitchens |-> ks]
        ELSE LET updated == SetAttrs(kitchen[1], update_data)
             IN  [answer |-> KitchenAnswer(200, Some(updated), ""),
                  kitchens |-> (ks \ {kitchen[1]}) \cup {updated}]

delete_kitchen(ks, kitchen_id, current_user) ==
    LET kitchen == First(OwnedKitchen(ks, kitchen_id, current_user.id))
    IN  IF kitchen = None
        THEN [answer |-> KitchenNotFound, kitchens |-> ks]
        ELSE [answer |-> KitchenAnswer(204, None, ""),
              kitchens |-> ks \ {kitchen[1]}]

\* OwnershipValidator.validate_kitchen_ownership: the kitchen it returns, or
\* the exception it raises
ValidateKitchenOwnership(ks, kitchen_id, user_id) ==
    LET kitchen == First({k \in ks : k.id = kitchen_id})
    IN  IF kitchen = None
        THEN [kitchen |-> None, raised |-> "KitchenNotFoundException"]
        ELSE IF kitchen[1].owner_id # user_id
        THEN [kitchen |-> None, raised |-> "KitchenAccessDeniedException"]
        ELSE [kitchen |-> kitchen, raised |-> ""]

(***************************************************************************)
(* Two registered users create, read, change and delete kitchens.          *)
(***************************************************************************)
MaxKitchens == 2

KitchenIds == 1..MaxKitchens

TwoUsers == {User(1, "u1", "e1"), User(2, "u2", "e2")}

Tokens == {None, Some("u1"), Some("u2")}

KitchenUpdates ==
    {[f \in {} |-> ""], [name |-> "b"], [name |-> "b", description |-> "d"]}

KitchenRoutes == {"get_kitchen", "update_kitchen", "delete_kitchen"}

InitKitchens ==
    /\ now = 0
    /\ StoreIs(NewStore(DefaultMaxHistory))
    /\ NoHealth /\ NoAlerts /\ NoThreads /\ NoRequests
    /\ NoReader /\ NoTask /\ NoResponse
    /\ users = TwoUsers
    /\ kitchens = {}
    /\ shopping_lists = {}
    /\ shopping_list_items = {}
    /\ registrations = << >>

KitchenFrame ==
    /\ UNCHANGED <<users, shopping_lists, shopping_list_items, registrations>>
    /\ DbFrame

\* what a kitchen route answered, for which caller and kitchen, and the table
\* it found
KitchenCall(call, token, kitchen_id, answer) ==
    Some([call |-> call, token |-> token, kitchen_id |-> kitchen_id,
          status_code |-> answer.status_code, kitchen |-> answer.kitchen,
          before |-> kitchens])

Unauthenticated(status_code) == KitchenAnswer(status_code, None, "")

\* POST /api/v1/auth/kitchens/
CreateKitchen ==
    \E token \in Tokens :
        LET auth == GetCurrentUser(users, token)
        IN  IF auth.user = None
            THEN /\ response' = KitchenCall("create_kitchen", token, 0,
                                            Unauthenticated(auth.status_code))
                 /\ UNCHANGED kitchens
                 /\ KitchenFrame
            ELSE /\ \E id \in KitchenIds \ {k.id : k \in kitchens} :
                        LET kitchen == Kitchen(id, auth.user[1].id, "a", "d0")
                        IN  /\ kitchens' = kitchens \cup {kitchen}
                            /\ response' = KitchenCall("create_kitchen", token, id,
                                   KitchenAnswer(201, Some(kitchen), ""))
                 /\ KitchenFrame

KitchenRoute(call, token, kitchen_id, result) ==
    LET auth == GetCurrentUser(users, token)
    IN  IF auth.user = None
        THEN /\ response' = KitchenCall(call, token, kitchen_id,
                                        Unauthenticated(auth.status_code))
             /\ UNCHANGED kitchens
        ELSE LET done == result[auth.user[1].id]
             IN  /\ response' = KitchenCall(call, token, kitchen_id, done.answer)
                 /\ kitchens' = done.kitchens

\* GET /api/v1/auth/kitchens/{kitchen_id}
GetKitchen ==
    /\ \E token \in Tokens, kitchen_id \in KitchenIds :
           KitchenRoute("get_kitchen", token, kitchen_id,
               [i \in {u.id : u \in users} |->
                   get_kitchen(kitchens, kitchen_id, [id |-> i])])
    /\ KitchenFrame

\* PUT /api/v1/auth/kitchens/{kitchen_id}
UpdateKitchen ==
    /\ \E token \in Tokens, kitchen_id \in KitchenIds, update_data \in KitchenUpdates :
           KitchenRoute("update_kitchen", token, kitchen_id,
               [i \in {u.id : u \in users} |->
                   update_kitchen(kitchens, kitchen_id, update_data, [id |-> i])])
    /\ KitchenFrame

\* DELETE /api/v1/auth/kitchens/{kitchen_id}
DeleteKitchen ==
    /\ \E token \in Tokens, kitchen_id \in KitchenIds :
           KitchenRoute("delete_kitchen", token, kitchen_id,
               [i \in {u.id : u \in users} |->
                   delete_kitchen(kitchens, kitchen_id, [id |-> i])])
    /\ KitchenFrame

\* a call of OwnershipValidator.validate_kitchen_ownership
ValidateOwnership ==
    /\ \E kitchen_id \in KitchenIds, user_id \in {u.id : u \in users} :
           LET result == ValidateKitchenOwnership(kitchens, kitchen_id, user_id)
           IN  response' = Some([call |-> "validate_kitchen_ownership",
                                 kitchen_id |-> kitchen_id, user_id |-> user_id,
                                 kitchen |-> result.kitchen,
                                 raised |-> result.raised])
    /\ UNCHANGED kitchens
    /\ KitchenFrame

NextKitchens ==
    \/ CreateKitchen
    \/ GetKitchen
    \/ UpdateKitchen
    \/ DeleteKitchen
    \/ ValidateOwnership

SpecKitchens == InitKitchens /\ [][NextKitchens]_vars

SecondsPerDay == 86400

ShoppingList(id, kitchen_id, name, description, created_at) ==
    [id |-> id, kitchen_id |-> kitchen_id, name |-> name,
     description |-> description, created_at |-> created_at]

ShoppingListItem(id, shopping_list_id, name, quantity, created_at) ==
    [id |-> id, shopping_list_id |-> shopping_list_id, name |-> name,
     quantity |-> quantity, created_at |-> created_at]

\* Truth value of an Optional[str] in `if x:`: None and "" are false.
TruthyText(x) == x # None /\ x[1] # << >>

Lower(text) ==
    [i \in 1..Len(text) |->
        IF text[i] = "A" THEN "a" ELSE IF text[i] = "B" THEN "b" ELSE text[i]]

\* column.ilike(f"%{term}%") for a term without wildcards; NULL matches nothing
ILike(column, term) ==
    /\ column # None
    /\ \E i \in 0..(Len(column[1]) - Len(term)) :
           SubSeq(Lower(column[1]), i + 1, i + Len(term)) = Lower(term)

\* BaseFilter.apply_date_range: the end date is included whole
InDateRange(created_at, date_from, date_to) ==
    /\ date_from # None => created_at >= date_from[1] * SecondsPerDay
    /\ date_to # None => created_at <= date_to[1] * SecondsPerDay + (SecondsPerDay - 1)

\* the rows left by the filters of filter_shopping_lists, before sorting
FilteredShoppingLists(rows, filters, items) ==
    {l \in rows :
        /\ TruthyText(filters.name) => ILike(Some(l.name), filters.name[1])
        /\ TruthyInt(filters.kitchen_id) => l.kitchen_id = filters.kitchen_id[1]
        /\ filters.kitchen_ids # {} => l.kitchen_id \in filters.kitchen_ids
        /\ TruthyText(filters.search) =>
               \/ ILike(Some(l.name), filters.search[1])
               \/ ILike(l.description, filters.search[1])
        /\ InDateRange(l.created_at, filters.date_from, filters.date_to)
        /\ filters.has_items # None =>
               (filters.has_items[1] <=> \E i \in items : i.shopping_list_id = l.id)}

\* the rows left by the filters of filter_shopping_list_items, before sorting
FilteredShoppingListItems(rows, filters, lists) ==
    {i \in rows :
        /\ TruthyText(filters.name) => ILike(Some(i.name), filters.name[1])
        /\ TruthyInt(filters.shopping_list_id) =>
               i.shopping_list_id = filters.shopping_list_id[1]
        /\ filters.shopping_list_ids # {} =>
               i.shopping_list_id \in filters.shopping_list_ids
        /\ TruthyInt(filters.kitchen_id) =>
               \E l \in lists : /\ l.id = i.shopping_list_id
                                /\ l.kitchen_id = filters.kitchen_id[1]
        /\ TruthyText(filters.quantity_contains) =>
               ILike(Some(i.quantity), filters.quantity_contains[1])
        /\ TruthyText(filters.search) =>
               \/ ILike(Some(i.name), filters.search[1])
               \/ ILike(Some(i.quantity), filters.search[1])
        /\ InDateRange(i.created_at, filters.date_from, filters.date_to)}

RECURSIVE Orders(_)

Orders(rows) ==
    IF rows = {} THEN {<< >>}
    ELSE UNION {{<<r>> \o q : q \in Orders(rows \ {r})} : r \in rows}

\* SortOptions.apply_sorting on created_at: the orders the database may
\* return the rows in (rows created at the same time come in any order)
ApplySorting(rows, sort_by, sort_order) ==
    LET descending == sort_by # "created_at" \/ sort_order \in {"desc", "DESC"}
    IN  {q \in Orders(rows) :
            \A i \in 1..Len(q) : \A j \in (i + 1)..Len(q) :
                IF descending THEN q[i].created_at >= q[j].created_at
                ELSE q[i].created_at <= q[j].created_at}

\* query.offset(skip).limit(limit).all() and the pagination metadata
Paginated(sorted, skip, limit) ==
    LET total == Len(sorted)
    IN  [status_code |-> 200,
         items |-> SubSeq(sorted, skip + 1, IF skip + limit < total THEN skip + limit ELSE total),
         total |-> total,
         page |-> (skip \div limit) + 1,
         per_page |-> limit,
         pages |-> IF total > 0 THEN (total + limit - 1) \div limit ELSE 1,
         has_next |-> skip + limit < total,
         has_prev |-> skip > 0]

\* kitchen ids taken without regard to the owner
KitchenIdsOfAnyOwner(ks, current_user) == {k.id : k \in ks}

KitchenIdsOf(ks, current_user) == {k.id : k \in {x \in ks : x.owner_id = current_user.id}}

\* list_shopping_lists: the pages it may answer with
list_shopping_lists(ks, lists, items, q, current_user) ==
    LET kitchen_ids == KitchenIdsOf(ks, current_user)
        base_query == {l \in lists : l.kitchen_id \in kitchen_ids}
        filters == [name |-> q.name, kitchen_id |-> q.kitchen_id, search |-> q.search,
                    date_from |-> q.date_from, date_to |-> q.date_to,
                    has_items |-> q.has_items, kitchen_ids |-> kitchen_ids]
        filtered == FilteredShoppingLists(base_query, filters, items)
    IN  {Paginated(sorted, q.skip, q.limit) :
            sorted \in ApplySorting(filtered, q.sort_by, q.sort_order)}

\* list_shopping_list_items: the pages it may answer with
list_shopping_list_items(ks, lists, items, q, current_user) ==
    LET kitchen_ids == KitchenIdsOf(ks, current_user)
        shopping_list_ids == {l.id : l \in {x \in lists : x.kitchen_id \in kitchen_ids}}
        base_query == {i \in items : i.shopping_list_id \in shopping_list_ids}
        filters == [name |-> q.name, shopping_list_id |-> q.shopping_list_id,
                    kitchen_id |-> q.kitchen_id,
                    quantity_contains |-> q.quantity_contains, search |-> q.search,
                    date_from |-> q.date_from, date_to |-> q.date_to,
                    shopping_list_ids |-> shopping_list_ids]
        filtered == FilteredShoppingListItems(base_query, filters, lists)
    IN  {Paginated(sorted, q.skip, q.limit) :
            sorted \in ApplySorting(filtered, q.sort_by, q.sort_order)}

\* validate_bearer_token: every failure is answered 401
ValidateBearerToken(us, token) ==
    IF token = None THEN None
    ELSE LET user == First({u \in us : u.username = token[1]})
         IN  IF user # None /\ user[1].is_active THEN user ELSE None

\* current_user of a call that passes none: the default of the parameter, the
\* object Depends(validate_bearer_token) made when the function was defined
DependsObject == [dependency |-> "validate_bearer_token", use_cache |-> TRUE]

\* what a validator hands back: the exception it raised, as the status the
\* client is answered with, or nothing raised and the list found
Raised(status_code, exception) ==
    [status_code |-> status_code, raised |-> exception, shopping_list |-> None]

Validated(shopping_list) ==
    [status_code |-> 200, raised |-> "", shopping_list |-> Some(shopping_list)]

\* validation.validate_kitchen_ownership: whether it returns (else 404)
OwnsKitchen(ks, kitchen_id, user_id) == OwnedKitchen(ks, kitchen_id, user_id) # {}

\* validate_authenticated_shopping_list_update(shopping_list_id,
\* shopping_list_update, current_user, db); reading current_user.id of an
\* object without that attribute raises AttributeError, which
\* general_exception_handler answers with 500
validate_authenticated_shopping_list_update(lists, ks, shopping_list_id, update_data, current_user) ==
    LET shopping_list == First({l \in lists : l.id = shopping_list_id})
    IN  IF shopping_list_id <= 0 THEN Raised(400, "ValidationError")
        ELSE IF shopping_list = None THEN Raised(404, "ValidationError")
        ELSE IF "id" \notin DOMAIN current_user THEN Raised(500, "AttributeError")
        ELSE IF ~OwnsKitchen(ks, shopping_list[1].kitchen_id, current_user.id)
        THEN Raised(404, "ValidationError")
        ELSE IF /\ "kitchen_id" \in DOMAIN update_data
                /\ ~OwnsKitchen(ks, update_data.kitchen_id, current_user.id)
        THEN Raised(404, "ValidationError")
        ELSE Validated(shopping_list[1])

\* update_shopping_list: its answer and the table it leaves
update_shopping_list(lists, ks, shopping_list_id, update_data) ==
    LET validated == validate_authenticated_shopping_list_update(
                         lists, ks, shopping_list_id, update_data, DependsObject)
    IN  IF validated.raised # ""
        THEN [answer |-> validated, shopping_lists |-> lists]
        ELSE LET updated == SetAttrs(validated.shopping_list[1], update_data)
             IN  [answer |-> Validated(updated),
                  shopping_lists |-> (lists \ {validated.shopping_list[1]}) \cup {updated}]

(***************************************************************************)
(* Two users, two kitchens, lists and items in both kitchens; in one of    *)
(* the two starting states the second user owns no kitchen.                *)
(***************************************************************************)
MaxLists == 3

ListIds == 1..MaxLists

StartKitchens ==
    {{Kitchen(1, 1, "a", "d0"), Kitchen(2, owner_id, "a", "d0")} : owner_id \in {1, 2}}

StartLists ==
    {ShoppingList(1, 1, <<"a">>, None, 0),
     ShoppingList(2, 2, <<"A", "b">>, Some(<<"b">>), SecondsPerDay)}

StartItems ==
    {ShoppingListItem(1, 1, <<"a">>, <<"b">>, 0),
     ShoppingListItem(2, 2, <<"A", "b">>, <<"a">>, SecondsPerDay)}

Texts == {None, Some(<<"a">>)}

\* the first hundred oldest first, or (the sort field being unknown) the
\* second newest alone
Views == {[sort_by |-> "created_at", sort_order |-> "asc", skip |-> 0, limit |-> 100],
          [sort_by |-> "updated", sort_order |-> "asc", skip |-> 1, limit |-> 1]}

\* no date filter, or one that keeps the first day only
DateRanges == {[date_from |-> None, date_to |-> None],
               [date_from |-> Some(0), date_to |-> Some(0)],
               [date_from |-> Some(1), date_to |-> None]}

ListQueries ==
    {[name |-> name, kitchen_id |-> kitchen_id, search |-> search,
      date_from |-> dates.date_from, date_to |-> dates.date_to,
      has_items |-> has_items,
      sort_by |-> view.sort_by, sort_order |-> view.sort_order,
      skip |-> view.skip, limit |-> view.limit] :
        name \in Texts, kitchen_id \in {None, Some(1), Some(2)},
        search \in {None, Some(<<"b">>)}, dates \in DateRanges,
        has_items \in {None, Some(TRUE), Some(FALSE)}, view \in Views}

ItemQueries ==
    {[name |-> name, shopping_list_id |-> shopping_list_id,
      kitchen_id |-> kitchen_id, quantity_contains |-> quantity_contains,
      search |-> search, date_from |-> dates.date_from, date_to |-> dates.date_to,
      sort_by |-> view.sort_by, sort_order |-> view.sort_order,
      skip |-> view.skip, limit |-> view.limit] :
        name \in Texts, shopping_list_id \in {None, Some(1), Some(2)},
        kitchen_id \in {None, Some(1), Some(2)}, quantity_contains \in Texts,
        search \in {None, Some(<<"b">>)}, dates \in DateRanges, view \in Views}

ListUpdates ==
    {[name |-> <<"b">>, description |-> Some(<<"b">>)], [kitchen_id |-> 2]}

InitLists ==
    /\ now = 0
    /\ StoreIs(NewStore(DefaultMaxHistory))
    /\ NoHealth /\ NoAlerts /\ NoThreads /\ NoRequests
    /\ NoReader /\ NoTask /\ NoResponse
    /\ users = TwoUsers
    /\ kitchens \in StartKitchens
    /\ shopping_lists = StartLists
    /\ shopping_list_items = StartItems
    /\ registrations = << >>

ListFrame ==
    /\ UNCHANGED <<users, kitchens, shopping_list_items, registrations>>
    /\ DbFrame

\* POST /api/v1/shopping-lists/
CreateShoppingList ==
    /\ Cardinality(shopping_lists) < MaxLists
    /\ \E token \in Tokens, kitchen_id \in KitchenIds :
           LET current_user == ValidateBearerToken(users, token)
           IN  IF current_user = None
               THEN /\ response' = Some([call |-> "create_shopping_list",
                                         token |-> token, status_code |-> 401])
                    /\ UNCHANGED shopping_lists
               ELSE IF ~OwnsKitchen(kitchens, kitchen_id, current_user[1].id)
               THEN /\ response' = Some([call |-> "create_shopping_list",
                                         token |-> token, status_code |-> 404])
                    /\ UNCHANGED shopping_lists
               ELSE \E id \in ListIds \ {l.id : l \in shopping_lists} :
                        /\ shopping_lists' = shopping_lists \cup
                               {ShoppingList(id, kitchen_id, <<"a">>, None, now)}
                        /\ response' = Some([call |-> "create_shopping_list",
                                             token |-> token, status_code |-> 201])
    /\ ListFrame

\* what a listing answered, for which caller and with which of the filters
\* that name a resource
Listing(call, token, kitchen_id, shopping_list_id, answer) ==
    Some([call |-> call, token |-> token, kitchen_id |-> kitchen_id,
          shopping_list_id |-> shopping_list_id, status_code |-> answer.status_code,
          items |-> answer.items, total |-> answer.total])

Unlisted == [status_code |-> 401, items |-> << >>, total |-> 0]

\* GET /api/v1/shopping-lists/
ListShoppingLists ==
    /\ \E token \in Tokens :
           LET current_user == ValidateBearerToken(users, token)
           IN  IF current_user = None
               THEN response' = Listing("list_shopping_lists", token, None, None, Unlisted)
               ELSE \E q \in ListQueries :
                    \E answer \in list_shopping_lists(kitchens, shopping_lists,
                                      shopping_list_items, q, current_user[1]) :
                        response' = Listing("list_shopping_lists", token,
                                            q.kitchen_id, None, answer)
    /\ UNCHANGED shopping_lists
    /\ ListFrame

\* GET /api/v1/shopping-list-items/
ListShoppingListItems ==
    /\ \E token \in Tokens :
           LET current_user == ValidateBearerToken(users, token)
           IN  IF current_user = None
               THEN response' = Listing("list_shopping_list_items", token, None, None,
                                        Unlisted)
               ELSE \E q \in ItemQueries :
                    \E answer \in list_shopping_list_items(kitchens, shopping_lists,
                                      shopping_list_items, q, current_user[1]) :
                        response' = Listing("list_shopping_list_items", token,
                                            q.kitchen_id, q.shopping_list_id, answer)
    /\ UNCHANGED shopping_lists
    /\ ListFrame

\* PUT /api/v1/shopping-lists/{shopping_list_id}; the route declares no
\* dependency on the token, which is never looked at
UpdateShoppingList ==
    /\ \E token \in Tokens, shopping_list_id \in 0..MaxLists, update_data \in ListUpdates :
           LET done == update_shopping_list(shopping_lists, kitchens,
                                            shopping_list_id, update_data)
           IN  /\ response' = Some([call |-> "update_shopping_list", token |-> token,
                                    shopping_list_id |-> shopping_list_id,
                                    update_data |-> update_data,
                                    status_code |-> done.answer.status_code,
                                    raised |-> done.answer.raised,
                                    shopping_list |-> done.answer.shopping_list,
                                    before |-> shopping_lists])
               /\ shopping_lists' = done.shopping_lists
    /\ ListFrame

NextLists ==
    \/ CreateShoppingList
    \/ ListShoppingLists
    \/ ListShoppingListItems
    \/ UpdateShoppingList

SpecLists == InitLists /\ [][NextLists]_vars

\* the kitchens a token's user owns
OwnedBy(token) ==
    {k.id : k \in {x \in kitchens : \E u \in users :
                       token = Some(u.username) /\ x.owner_id = u.id}}

\* C24: whatever the filters, a listing answers only with shopping lists of,
\* and items of shopping lists of, kitchens the caller owns, and counts no
\* others; a filter naming someone else's kitchen or list widens nothing.
C24_ListingsStayWithinOwnedKitchens ==
    /\ Answered("list_shopping_lists") =>
           LET r == response[1]
               mine == {l \in shopping_lists : l.kitchen_id \in OwnedBy(r.token)}
           IN  /\ \A i \in 1..Len(r.items) : r.items[i] \in mine
               /\ r.total <= Cardinality(mine)
    /\ Answered("list_shopping_list_items") =>
           LET r == response[1]
               mine == {i \in shopping_list_items :
                           \E l \in shopping_lists :
                               l.id = i.shopping_list_id /\ l.kitchen_id \in OwnedBy(r.token)}
           IN  /\ \A i \in 1..Len(r.items) : r.items[i] \in mine
               /\ r.total <= Cardinality(mine)

\* the second user asked for the items of the first user's list in the first
\* user's kitchen and got the empty page, owning a kitchen with a list that
\* has an item
C24_Witness ==
    /\ Answered("list_shopping_list_items")
    /\ response[1].token = Some("u2")
    /\ response[1].kitchen_id = Some(1)
    /\ response[1].shopping_list_id = Some(1)
    /\ response[1].status_code = 200
    /\ response[1].items = << >>
    /\ OwnedBy(Some("u2")) = {2}
    /\ \E l \in shopping_lists : l.kitchen_id = 1 /\ l.id = 1
    /\ \E i \in shopping_list_items : i.shopping_list_id = 2

\* C26: a PUT of a shopping list by the owner of its kitchen is answered 200
\* with the list as updated, and the table holds the list with exactly the
\* supplied fields set.
C26_OwnerUpdateSucceeds ==
    Answered("update_shopping_list") =>
        LET r == response[1]
        IN  \A l \in r.before :
                (l.id = r.shopping_list_id /\ l.kitchen_id \in OwnedBy(r.token)
                     /\ "kitchen_id" \notin DOMAIN r.update_data)
                    => /\ r.status_code = 200
                       /\ r.shopping_list = Some(SetAttrs(l, r.update_data))
                       /\ shopping_lists = (r.before \ {l}) \cup {SetAttrs(l, r.update_data)}

(***************************************************************************)
(* Registration.  register_user is a plain function, which FastAPI runs in *)
(* a thread pool: requests being handled at the same time interleave at    *)
(* their database statements, each in its own session.                     *)
(***************************************************************************)
MaxRegistrations == 3

Credentials ==
    {[username |-> "u", email |-> "e"], [username |-> "u", email |-> "f"],
     [username |-> "v", email |-> "e"]}

\* the unique constraints a new row would violate, ignored
NoUniqueViolations(us, username, email) == {}

\* users.username and users.email are unique=True: the constraints a new row
\* would violate
UniqueViolations(us, username, email) ==
    {c \in {"username", "email"} :
        \E u \in us : IF c = "username" THEN u.username = username
                      ELSE u.email = email}

InitRegister ==
    /\ now = 0
    /\ StoreIs(NewStore(DefaultMaxHistory))
    /\ NoHealth /\ NoAlerts /\ NoThreads /\ NoRequests
    /\ NoReader /\ NoTask /\ NoResponse
    /\ users = {}
    /\ kitchens = {}
    /\ shopping_lists = {}
    /\ shopping_list_items = {}
    /\ registrations = << >>

RegisterFrame ==
    /\ UNCHANGED <<response, kitchens, shopping_lists, shopping_list_items>>
    /\ DbFrame

At(r, pc) == r \in 1..Len(registrations) /\ registrations[r].pc = pc

Goes(r, pc) == registrations' = [registrations EXCEPT ![r].pc = pc]

Answers(r, status_code) ==
    registrations' = [registrations EXCEPT ![r].pc = "done",
                                           ![r].status_code = status_code]

\* a POST /api/v1/auth/register arrives; found_first notes whether a user
\* with its username or email was there already
RegisterArrives ==
    /\ Len(registrations) < MaxRegistrations
    /\ \E user_data \in Credentials :
           registrations' = Append(registrations,
               [pc |-> "check_username", username |-> user_data.username,
                email |-> user_data.email, status_code |-> 0,
                found_first |-> UniqueViolations(users, user_data.username,
                                                 user_data.email) # {}])
    /\ UNCHANGED users
    /\ RegisterFrame

\* existing_user = db.query(User).filter(User.username == ...).first()
RegisterCheckUsername ==
    /\ \E r \in 1..Len(registrations) :
           /\ At(r, "check_username")
           /\ IF \E u \in users : u.username = registrations[r].username
              THEN Answers(r, 400)
              ELSE Goes(r, "check_email")
    /\ UNCHANGED users
    /\ RegisterFrame

\* existing_email = db.query(User).filter(User.email == ...).first()
RegisterCheckEmail ==
    /\ \E r \in 1..Len(registrations) :
           /\ At(r, "check_email")
           /\ IF \E u \in users : u.email = registrations[r].email
              THEN Answers(r, 400)
              ELSE Goes(r, "create_user")
    /\ UNCHANGED users
    /\ RegisterFrame

\* create_user: db.add(user); db.commit().  The database refuses a row that
\* violates a unique constraint (IntegrityError), naming one of the violated
\* constraints; either name is answered with a ConflictException (409).
RegisterCreateUser ==
    /\ \E r \in 1..Len(registrations) :
           /\ At(r, "create_user")
           /\ LET username == registrations[r].username
                  email == registrations[r].email
                  violated == UniqueViolations(users, username, email)
              IN  IF violated = {}
                  THEN /\ users' = users \cup
                                     {User(Cardinality(users) + 1, username, email)}
                       /\ Answers(r, 201)
                  ELSE /\ UNCHANGED users
                       /\ \E named \in violated : Answers(r, 409)
    /\ RegisterFrame

NextRegister ==
    \/ RegisterArrives
    \/ RegisterCheckUsername
    \/ RegisterCheckEmail
    \/ RegisterCreateUser

SpecRegister == InitRegister /\ [][NextRegister]_vars

Registered(r) == registrations[r].pc = "done"

AnsweredWith(status_code) ==
    {r \in 1..Len(registrations) :
        Registered(r) /\ registrations[r].status_code = status_code}

\* every request so far carries the same username and email, and all have
\* been answered
SameCredentialsAllAnswered ==
    /\ registrations # << >>
    /\ \A r \in 1..Len(registrations) :
           /\ Registered(r)
           /\ registrations[r].username = registrations[1].username
           /\ registrations[r].email = registrations[1].email

UniqueUsers ==
    \A u, v \in users :
        (u.username = v.username \/ u.email = v.email \/ u.id = v.id) => u = v

\* every user row was created by a request answered 201, one row each
OnlySuccessesCreate ==
    /\ Cardinality(users) = Cardinality(AnsweredWith(201))
    /\ \A u \in users : \E r \in AnsweredWith(201) :
           registrations[r].username = u.username /\ registrations[r].email = u.email

====
